---- MODULE Spec2Model ----
(***************************************************************************)
(* A model of dl-nzb's concurrent NNTP fetch engine: the yEnc decoder and  *)
(* the pipelined protocol client (src/src/nntp/connection.rs), the         *)
(* connection pool (src/src/nntp/pool.rs) and the fetch scheduler with its *)
(* scatter writer (src/src/download/downloader.rs).                        *)
(*                                                                         *)
(* Bytes are the integers 0..255, a line is the sequence of bytes that one *)
(* read_until(b'\n') delivers (its line ending included), and the unread   *)
(* part of a connection's input stream is a sequence of such lines.        *)
(***************************************************************************)
EXTENDS Integers, Sequences, FiniteSets, TLC

\* ------------------------------------------------------------------ bytes

CRLF == <<13, 10>>
EOL == <<10>>
DotLine == <<46>>
YBegin == <<61, 121, 98, 101, 103, 105, 110>>
YEnd == <<61, 121, 101, 110, 100>>
YPart == <<61, 121, 112, 97, 114, 116>>
\* The status codes the client tests for, as the ASCII digits of the line.
S200 == <<50, 48, 48>>
S211 == <<50, 49, 49>>
S222 == <<50, 50, 50>>
S423 == <<52, 50, 51>>
S430 == <<52, 51, 48>>
\* Codes the client has no case for.
S411 == <<52, 49, 49>>
S500 == <<53, 48, 48>>

StartsWith(s, p) == Len(s) >= Len(p) /\ SubSeq(s, 1, Len(p)) = p

EndsWith(s, p) == Len(s) >= Len(p) /\ SubSeq(s, Len(s) - Len(p) + 1, Len(s)) = p

\* u8::wrapping_sub
WrappingSub(b, k) == (b + 256 - k) % 256

\* The line without its ending: CRLF, else a bare LF, else nothing to strip.
StripEol(line) ==
    IF EndsWith(line, CRLF) THEN SubSeq(line, 1, Len(line) - 2)
    ELSE IF EndsWith(line, EOL) THEN SubSeq(line, 1, Len(line) - 1)
    ELSE line

\* read_line fills a String: bytes that are not UTF-8 make it fail. The byte
\* values the model puts on the wire above 0x7F are lone continuation or
\* invalid lead bytes, never a well-formed multi-byte sequence.
ValidUtf8(line) == \A i \in 1..Len(line) : line[i] < 128

\* ------------------------------------------------------------ yEnc decoder

\* data.split(|&b| b == b'\n'): the pieces between the LF bytes (a trailing
\* LF yields a last, empty piece).
RECURSIVE SplitFrom(_, _, _)
SplitFrom(data, i, cur) ==
    IF i > Len(data) THEN <<cur>>
    ELSE IF data[i] = 10 THEN <<cur>> \o SplitFrom(data, i + 1, <<>>)
    ELSE SplitFrom(data, i + 1, Append(cur, data[i]))

SplitLines(data) == SplitFrom(data, 1, <<>>)

\* A variant of ScalarFrom whose escape consumes the '=' alone: the byte
\* after it is decoded a second time.
RECURSIVE ScalarFrom_m(_, _, _)
ScalarFrom_m(line, i, output) ==
    IF i > Len(line) THEN output
    ELSE IF line[i] = 61 THEN
        IF i + 1 <= Len(line)
        THEN ScalarFrom_m(line, i + 1,
                          Append(output, WrappingSub(WrappingSub(line[i + 1], 64), 42)))
        ELSE output
    ELSE IF line[i] # 13
         THEN ScalarFrom_m(line, i + 1, Append(output, WrappingSub(line[i], 42)))
    ELSE ScalarFrom_m(line, i + 1, output)

RECURSIVE ScalarFrom(_, _, _)
ScalarFrom(line, i, output) ==
    IF i > Len(line) THEN output
    ELSE IF line[i] = 61 THEN
        IF i + 1 <= Len(line)
        THEN ScalarFrom(line, i + 2,
                        Append(output, WrappingSub(WrappingSub(line[i + 1], 64), 42)))
        ELSE output
    ELSE IF line[i] # 13 THEN ScalarFrom(line, i + 1, Append(output, WrappingSub(line[i], 42)))
    ELSE ScalarFrom(line, i + 1, output)

decode_yenc_scalar(line, output) == ScalarFrom(line, 1, output)

\* A 16-byte loop with no scalar tail.
decode_yenc_fast_m(line, output) ==
    LET chunks == Len(line) \div 16
        simd_len == chunks * 16
    IN  output \o [i \in 1..simd_len |-> WrappingSub(line[i], 42)]

\* The 16-byte vector loop followed by the scalar remainder loop.
decode_yenc_fast(line, output) ==
    LET chunks == Len(line) \div 16
        simd_len == chunks * 16
    IN  output
        \o [i \in 1..simd_len |-> WrappingSub(line[i], 42)]
        \o [i \in 1..(Len(line) - simd_len) |-> WrappingSub(line[simd_len + i], 42)]

\* The fast path taken for every line.
decode_yenc_line_simd_m(line, output) == decode_yenc_fast(line, output)

decode_yenc_line_simd(line, output) ==
    LET has_special == \E i \in 1..Len(line) : line[i] = 61 \/ line[i] = 13
    IN  IF has_special THEN decode_yenc_scalar(line, output)
        ELSE decode_yenc_fast(line, output)

RECURSIVE DecodeFrom(_, _, _, _)
DecodeFrom(lines, k, in_data, decoded) ==
    IF k > Len(lines) THEN decoded
    ELSE IF StartsWith(lines[k], YBegin) THEN DecodeFrom(lines, k + 1, TRUE, decoded)
    ELSE IF StartsWith(lines[k], YEnd) THEN decoded
    ELSE IF StartsWith(lines[k], YPart) THEN DecodeFrom(lines, k + 1, in_data, decoded)
    ELSE IF in_data /\ lines[k] # <<>>
         THEN DecodeFrom(lines, k + 1, in_data, decode_yenc_line_simd(lines[k], decoded))
    ELSE DecodeFrom(lines, k + 1, in_data, decoded)

\* Always Ok(decoded): the function has no failing path.
decode_yenc_simple(data) == DecodeFrom(SplitLines(data), 1, FALSE, <<>>)

\* --------------------------------------------------------- line reading
\* A reader rd is [wire, n, fin]: the unread lines in order, how many of
\* them arrive before the reading operation's timeout, and how the stream
\* ends after them: "open", "eof" (orderly close) or "reset" (I/O error).

AtEnd(rd) == rd.wire = <<>> /\ rd.fin # "open"

Consume(rd) == [rd EXCEPT !.wire = Tail(rd.wire), !.n = rd.n - 1]

\* timeout(.., read_response()): kind "ok" with the stripped line (the empty
\* string at end of stream), "err" for an I/O error, "timeout".
read_response(rd) ==
    IF AtEnd(rd) THEN
        IF rd.fin = "eof" THEN [kind |-> "ok", line |-> <<>>, rd |-> rd]
        ELSE [kind |-> "err", line |-> <<>>, rd |-> rd]
    ELSE IF rd.wire = <<>> \/ rd.n = 0 THEN [kind |-> "timeout", line |-> <<>>, rd |-> rd]
    ELSE IF ~ValidUtf8(Head(rd.wire)) THEN [kind |-> "err", line |-> <<>>, rd |-> Consume(rd)]
    ELSE [kind |-> "ok", line |-> StripEol(Head(rd.wire)), rd |-> Consume(rd)]

\* A variant of BodyFrom that removes a stuffed dot before it tests for the
\* terminator.
RECURSIVE BodyFrom_m(_, _)
BodyFrom_m(rd, body) ==
    IF AtEnd(rd) THEN
        IF rd.fin = "eof" THEN [kind |-> "ok", body |-> body, rd |-> rd]
        ELSE [kind |-> "err", body |-> <<>>, rd |-> rd]
    ELSE IF rd.wire = <<>> \/ rd.n = 0 THEN [kind |-> "timeout", body |-> <<>>, rd |-> rd]
    ELSE LET line == Head(rd.wire)
             unstuffed == IF Len(line) >= 2 /\ line[1] = 46 /\ line[2] = 46
                          THEN Tail(line) ELSE line
         IN  IF unstuffed = DotLine \o CRLF \/ unstuffed = DotLine \o EOL
             THEN [kind |-> "ok", body |-> body, rd |-> Consume(rd)]
             ELSE BodyFrom_m(Consume(rd), body \o StripEol(unstuffed) \o EOL)

RECURSIVE BodyFrom(_, _)
BodyFrom(rd, body) ==
    IF AtEnd(rd) THEN
        IF rd.fin = "eof" THEN [kind |-> "ok", body |-> body, rd |-> rd]
        ELSE [kind |-> "err", body |-> <<>>, rd |-> rd]
    ELSE IF rd.wire = <<>> \/ rd.n = 0 THEN [kind |-> "timeout", body |-> <<>>, rd |-> rd]
    ELSE LET line == Head(rd.wire)
             unstuffed == IF Len(line) >= 2 /\ line[1] = 46 /\ line[2] = 46
                          THEN Tail(line) ELSE line
         IN  IF line = DotLine \o CRLF \/ line = DotLine \o EOL
             THEN [kind |-> "ok", body |-> body, rd |-> Consume(rd)]
             ELSE BodyFrom(Consume(rd), body \o StripEol(unstuffed) \o EOL)

read_article_body(rd) == BodyFrom(rd, <<>>)

\* ------------------------------------------------- the protocol client
\* A connection is [group, wire, fin]: the selected group ("" for None), the
\* lines the server has sent that no operation has read, and the state of
\* the stream behind them.

NewConnection == [group |-> "", wire |-> <<>>, fin |-> "open"]

RECURSIVE Flatten(_)
Flatten(seqs) == IF seqs = <<>> THEN <<>> ELSE Head(seqs) \o Flatten(Tail(seqs))

NoData == [some |-> FALSE, bytes |-> <<>>]
SomeData(b) == [some |-> TRUE, bytes |-> b]

\* A variant of PipelineFrom that drains a body after 430 and 423 as well.
RECURSIVE PipelineFrom_m(_, _, _, _)
PipelineFrom_m(requests, i, rd, results) ==
    IF i > Len(requests)
    THEN [ret |-> "Ok", results |-> results, partial |-> results, rd |-> rd]
    ELSE LET resp == read_response(rd)
             num == requests[i].segment_number
         IN  IF resp.kind # "ok"
             THEN [ret |-> "Err", results |-> <<>>, partial |-> results, rd |-> resp.rd]
             ELSE IF ~StartsWith(resp.line, S222)
             THEN PipelineFrom_m(requests, i + 1, read_article_body(resp.rd).rd,
                                 Append(results, <<num, NoData>>))
             ELSE LET body == read_article_body(resp.rd)
                  IN  IF body.kind # "ok"
                      THEN [ret |-> "Err", results |-> <<>>, partial |-> results,
                            rd |-> body.rd]
                      ELSE PipelineFrom_m(requests, i + 1, body.rd,
                               Append(results,
                                      <<num, SomeData(decode_yenc_simple(body.body))>>))

\* The response loop of download_segments_pipelined from request i on.
\* partial is the local results vector at the moment the function returns
\* (what an Err return throws away).
RECURSIVE PipelineFrom(_, _, _, _)
PipelineFrom(requests, i, rd, results) ==
    IF i > Len(requests)
    THEN [ret |-> "Ok", results |-> results, partial |-> results, rd |-> rd]
    ELSE LET resp == read_response(rd)
             num == requests[i].segment_number
         IN  IF resp.kind # "ok"
             THEN [ret |-> "Err", results |-> <<>>, partial |-> results, rd |-> resp.rd]
             ELSE IF ~StartsWith(resp.line, S222) THEN
                 IF StartsWith(resp.line, S430) \/ StartsWith(resp.line, S423)
                 THEN PipelineFrom(requests, i + 1, resp.rd,
                                   Append(results, <<num, NoData>>))
                 ELSE PipelineFrom(requests, i + 1, read_article_body(resp.rd).rd,
                                   Append(results, <<num, NoData>>))
             ELSE LET body == read_article_body(resp.rd)
                  IN  IF body.kind # "ok"
                      THEN [ret |-> "Err", results |-> <<>>, partial |-> results,
                            rd |-> body.rd]
                      ELSE PipelineFrom(requests, i + 1, body.rd,
                               Append(results,
                                      <<num, SomeData(decode_yenc_simple(body.body))>>))

\* download_segments_pipelined on connection conn against a server that
\* answers as script says: script.grp are the lines sent for GROUP,
\* script.replies[i] the lines sent for the i-th BODY, script.n the number of
\* lines that arrive in time and script.fin how the stream ends after them.
\* A server that is gone (fin # "open") sends nothing more. The result has
\* the returned value (ret, results), the connection afterwards, and the
\* commands that were sent.
download_segments_pipelined(conn, requests, script) ==
    LET group == requests[1].group
        live == conn.fin = "open"
        fin == IF live THEN script.fin ELSE conn.fin
        needGroup == conn.group # group
        rdG == [wire |-> conn.wire \o (IF live THEN script.grp ELSE <<>>),
                n |-> script.n, fin |-> fin]
        respG == read_response(rdG)
        groupOk == respG.kind = "ok" /\ StartsWith(respG.line, S211)
        rd0 == IF needGroup THEN respG.rd
               ELSE [wire |-> conn.wire, n |-> script.n, fin |-> fin]
        rdB == [rd0 EXCEPT !.wire = rd0.wire \o (IF live THEN Flatten(script.replies)
                                                 ELSE <<>>)]
        run == PipelineFrom(requests, 1, rdB, <<>>)
    IN  IF requests = <<>>
        THEN [ret |-> "Ok", results |-> <<>>, partial |-> <<>>, conn |-> conn,
              group_sent |-> FALSE, body_sent |-> FALSE]
        ELSE IF needGroup /\ ~groupOk
        THEN [ret |-> "Err", results |-> <<>>, partial |-> <<>>,
              conn |-> [conn EXCEPT !.wire = respG.rd.wire, !.fin = fin],
              group_sent |-> TRUE, body_sent |-> FALSE]
        ELSE [ret |-> run.ret, results |-> run.results, partial |-> run.partial,
              conn |-> [group |-> group, wire |-> run.rd.wire, fin |-> fin],
              group_sent |-> needGroup, body_sent |-> TRUE]

\* download_segment for request req on connection conn against a server
\* that answers as script says (as for download_segments_pipelined, with
\* script.replies[1] the lines sent for the BODY).
download_segment(conn, req, script) ==
    LET live == conn.fin = "open"
        fin == IF live THEN script.fin ELSE conn.fin
        needGroup == conn.group # req.group
        rdG == [wire |-> conn.wire \o (IF live THEN script.grp ELSE <<>>),
                n |-> script.n, fin |-> fin]
        respG == read_response(rdG)
        groupOk == respG.kind = "ok" /\ StartsWith(respG.line, S211)
        rd0 == IF needGroup THEN respG.rd
               ELSE [wire |-> conn.wire, n |-> script.n, fin |-> fin]
        rdB == [rd0 EXCEPT !.wire = rd0.wire \o (IF live THEN script.replies[1] ELSE <<>>)]
        resp == read_response(rdB)
        body == read_article_body(resp.rd)
        after(rd) == [group |-> req.group, wire |-> rd.wire, fin |-> fin]
    IN  IF needGroup /\ ~groupOk
        THEN [ret |-> "Err", bytes |-> <<>>,
              conn |-> [conn EXCEPT !.wire = respG.rd.wire, !.fin = fin],
              group_sent |-> TRUE, body_sent |-> FALSE]
        ELSE IF resp.kind # "ok" \/ ~StartsWith(resp.line, S222)
        THEN [ret |-> "Err", bytes |-> <<>>, conn |-> after(resp.rd),
              group_sent |-> needGroup, body_sent |-> TRUE]
        ELSE IF body.kind # "ok"
        THEN [ret |-> "Err", bytes |-> <<>>, conn |-> after(body.rd),
              group_sent |-> needGroup, body_sent |-> TRUE]
        ELSE [ret |-> "Ok", bytes |-> decode_yenc_simple(body.body), conn |-> after(body.rd),
              group_sent |-> needGroup, body_sent |-> TRUE]

\* is_healthy: NOOP, then one response line within 5 s that must start 200.
\* reply are the lines the server sends for the NOOP, n as above.
is_healthy(conn, reply, n) ==
    LET rd == [wire |-> conn.wire \o (IF conn.fin = "open" THEN reply ELSE <<>>),
               n |-> n, fin |-> conn.fin]
        resp == read_response(rd)
    IN  [healthy |-> resp.kind = "ok" /\ StartsWith(resp.line, S200),
         conn |-> [conn EXCEPT !.wire = resp.rd.wire]]

\* ------------------------------------------------------------ STAT

S223 == <<50, 50, 51>>

\* The number of the first lines of wire that have arrived by read i;
\* arrive[j] is the read during whose wait line j arrives (lines arrive in
\* the order sent).
ArrivedBy(arrive, i) == Cardinality({j \in 1..Len(arrive) : arrive[j] <= i})

\* "for req in requests": one read_response with a 2 s timeout per
\* request, from request i on, wire being the unread lines of the stream.
RECURSIVE StatFrom(_, _, _, _, _, _)
StatFrom(requests, i, wire, arrive, fin, results) ==
    IF i > Len(requests) THEN [results |-> results, wire |-> wire]
    ELSE
    LET resp == read_response([wire |-> wire, n |-> ArrivedBy(arrive, i), fin |-> fin])
        took == Len(wire) - Len(resp.rd.wire)
        exists == resp.kind = "ok" /\ StartsWith(resp.line, S223)
    IN  StatFrom(requests, i + 1, resp.rd.wire, SubSeq(arrive, took + 1, Len(arrive)),
                 fin, Append(results, <<requests[i].message_id, exists>>))

\* check_articles_exist on conn (whose reader holds no unread line) against a
\* server that answers as script says: script.lines are the response lines
\* it sends, script.arrive when each arrives, script.fin how the stream ends,
\* script.wfail the write that fails (0: none).
check_articles_exist(conn, requests, script) ==
    IF requests = <<>>
    THEN [ret |-> "Ok", pairs |-> <<>>, sent |-> <<>>, reads_after |-> 0, conn |-> conn]
    ELSE IF script.wfail # 0
    THEN [ret |-> "Err", pairs |-> <<>>,
          sent |-> [k \in 1..(script.wfail - 1) |-> <<"STAT", requests[k].message_id>>],
          reads_after |-> 0, conn |-> conn]
    ELSE LET r == StatFrom(requests, 1, script.lines, script.arrive, script.fin, <<>>)
         IN  [ret |-> "Ok", pairs |-> r.results,
              sent |-> [k \in 1..Len(requests) |-> <<"STAT", requests[k].message_id>>],
              reads_after |-> Len(requests),
              conn |-> [conn EXCEPT !.wire = r.wire, !.fin = script.fin]]

\* --------------------------------------------------------- run state

VARIABLES
    config,     \* connections, pipeline_size, connection_wait_timeout (s),
                \* force_redownload, username, password
    manifest,   \* the NZB's files in manifest order (read-only)
    late,       \* whether server lines may arrive after a client timeout
    disk,       \* the output directory: path -> [exists, data]
    next_file,  \* index in sorted_files of the next file future to poll
    fpc,        \* per file: "pending", "running", "done"
    stats,      \* per file: the shared counters and the failed-id list
    bt,         \* per file and batch: the batch task
    idle,       \* the pool's queue of idle connections
    body_cmds,  \* per message id: BODY commands sent for it
    results,    \* what buffer_unordered has collected, in that order
    returned,   \* download_nzb's return value once it has returned
    harness     \* one connection driven call by call (SpecConn)

vars == <<config, manifest, late, disk, next_file, fpc, stats, bt, idle, body_cmds,
          results, returned, harness>>

\* ------------------------------------------------ manifest and server
\* quoted is the first quoted part of a file's subject ("" when it has none).

Seg(bytes, number, message_id) ==
    [bytes |-> bytes, number |-> number, message_id |-> message_id]

FileB == [quoted |-> "b.bin", date |-> 7, group |-> "g", segs |-> <<Seg(2, 1, "b1")>>]

FileA ==
    [quoted |-> "a.bin", date |-> 7, group |-> "g",
     segs |-> <<Seg(2, 1, "a1"), Seg(3, 2, "a2"), Seg(1, 3, "a3")>>]

FileA2 ==
    [quoted |-> "a.bin", date |-> 7, group |-> "g",
     segs |-> <<Seg(2, 1, "a1"), Seg(3, 2, "a2")>>]

\* A file whose declared segment sizes differ from what the articles decode
\* to: a1 decodes to 2 bytes, a3 to 1, a2 to 3.
FileC ==
    [quoted |-> "c.bin", date |-> 7, group |-> "g",
     segs |-> <<Seg(1, 1, "a1"), Seg(2, 2, "a3"), Seg(2, 3, "a2")>>]

\* Two segments, the first declared one byte shorter than a1 decodes to.
FileC2 ==
    [quoted |-> "c.bin", date |-> 7, group |-> "g",
     segs |-> <<Seg(1, 1, "a1"), Seg(2, 2, "a3")>>]

\* A file whose content is zero bytes only.
FileZ == [quoted |-> "z.bin", date |-> 7, group |-> "g", segs |-> <<Seg(2, 1, "z1")>>]

\* A file of one segment that is larger than two sample windows.
FileK == [quoted |-> "k.bin", date |-> 7, group |-> "g", segs |-> <<Seg(3000, 1, "k1")>>]

\* A file posted to another group.
FileH == [quoted |-> "h.bin", date |-> 7, group |-> "h", segs |-> <<Seg(2, 1, "a1")>>]

\* Another file whose subject quotes the name of FileB.
FileD == [quoted |-> "b.bin", date |-> 8, group |-> "g", segs |-> <<Seg(2, 1, "a1")>>]

FileIds == 1..Len(manifest)

\* The decoded content of each article on the server.
ArticleData(message_id) ==
    CASE message_id = "a1" -> <<1, 2>>
      [] message_id = "a2" -> <<8, 6, 6>>
      [] message_id = "a3" -> <<7>>
      [] message_id = "b1" -> <<3, 4>>
      [] message_id = "z1" -> <<0, 0>>
      [] OTHER -> <<>>

\* yEnc encoding of bytes that need no escape, as the posting side does it.
Encode(data) == [i \in 1..Len(data) |-> (data[i] + 42) % 256]

\* What a server may send for one BODY command: the article, no such
\* article (430, 423), or a code the client has no case for.
ReplyKinds == {"222", "430", "423", "500"}

BodyReply(kind, message_id) ==
    CASE kind = "222" -> << S222 \o CRLF, YBegin \o CRLF,
                            Encode(ArticleData(message_id)) \o CRLF,
                            YEnd \o CRLF, DotLine \o CRLF >>
      [] kind = "430" -> << S430 \o CRLF >>
      [] kind = "423" -> << S423 \o CRLF >>
      [] kind = "500" -> << S500 \o CRLF >>
      [] OTHER -> << >>

GroupReplies == { <<S211 \o CRLF>>, <<S411 \o CRLF>> }
NoopReplies == { <<S200 \o CRLF>>, <<S500 \o CRLF>> }
Fins == {"open", "eof", "reset"}

\* ------------------------------------------------------- fetch scheduler

\* get_filename_from_subject(..).unwrap_or_else(|| "unknown_file_{date}")
Filename(file) ==
    IF file.quoted # "" THEN <<"name", file.quoted>> ELSE <<"unknown_file", file.date>>

OutputPath(f) == Filename(manifest[f])

Paths == {OutputPath(f) : f \in FileIds}

NumSegs(f) == Len(manifest[f].segs)

MessageIds ==
    UNION {{manifest[f].segs[k].message_id : k \in 1..NumSegs(f)} : f \in FileIds}

RECURSIVE SumBytes(_, _)
SumBytes(segs, k) == IF k = 0 THEN 0 ELSE segs[k].bytes + SumBytes(segs, k - 1)

expected_size(f) == SumBytes(manifest[f].segs, NumSegs(f))

\* A variant of segment_offset that adds the segment's own size.
segment_offset_m(f, k) == SumBytes(manifest[f].segs, k)

\* segment_offsets[idx]: the running sum of the sizes before the segment.
segment_offset(f, k) == SumBytes(manifest[f].segs, k - 1)

SegmentRequest(f, k) ==
    [message_id |-> manifest[f].segs[k].message_id, group |-> manifest[f].group,
     segment_number |-> manifest[f].segs[k].number]

\* segment_requests.chunks(pipeline_size)
NumBatches(f) == (NumSegs(f) + config.pipeline_size - 1) \div config.pipeline_size

\* Batches that each start one segment after the previous one started.
BatchSegs_m(f, b) ==
    LET lo == b
        hi == IF b + config.pipeline_size - 1 < NumSegs(f) THEN b + config.pipeline_size - 1
              ELSE NumSegs(f)
    IN  [i \in 1..(hi - lo + 1) |-> lo + i - 1]

BatchSegs(f, b) ==
    LET lo == (b - 1) * config.pipeline_size + 1
        hi == IF b * config.pipeline_size < NumSegs(f) THEN b * config.pipeline_size
              ELSE NumSegs(f)
    IN  [i \in 1..(hi - lo + 1) |-> lo + i - 1]

BatchRequests(f, b) ==
    [i \in 1..Len(BatchSegs(f, b)) |-> SegmentRequest(f, BatchSegs(f, b)[i])]

AllBatches == UNION {{<<f, b>> : b \in 1..NumBatches(f)} : f \in FileIds}

\* sort_by_key(Reverse(len)) is stable: more segments first, manifest order
\* among equals.
Before(f, g) == NumSegs(f) > NumSegs(g) \/ (NumSegs(f) = NumSegs(g) /\ f < g)

sorted_files ==
    [i \in 1..Len(manifest) |->
        CHOOSE f \in FileIds : Cardinality({g \in FileIds : Before(g, f)}) = i - 1]

\* The pool size taken as the cap.
max_concurrent_files_m == config.connections

max_concurrent_files ==
    IF config.connections \div 5 > 2 THEN config.connections \div 5 ELSE 2

\* verify_file_not_empty: whole file below 1 KiB, else three 1 KiB samples.
SampleAt(data, pos) ==
    SubSeq(data, pos + 1, IF pos + 1024 < Len(data) THEN pos + 1024 ELSE Len(data))

HasNonZero(bytes) == \E i \in 1..Len(bytes) : bytes[i] # 0

\* A variant of verify_file_not_empty that reads the whole file.
verify_file_not_empty_m(data) == HasNonZero(data)

verify_file_not_empty(data) ==
    IF Len(data) < 1024 THEN HasNonZero(data)
    ELSE \E pos \in {0, Len(data) \div 2, Len(data) - 1024} : HasNonZero(SampleAt(data, pos))

Zeros(n) == [i \in 1..n |-> 0]

\* seek(Start(offset)) then write_all(bytes) on a file holding data: the
\* bytes replace what is there and the file grows when they pass its end.
WriteAt(data, offset, bytes) ==
    LET end == IF offset + Len(bytes) > Len(data) THEN offset + Len(bytes) ELSE Len(data)
    IN  [i \in 1..end |->
            IF i > offset /\ i <= offset + Len(bytes) THEN bytes[i - offset]
            ELSE IF i <= Len(data) THEN data[i] ELSE 0]

\* Time in the lease loop is counted in units of 500 ms.
max_wait == config.connection_wait_timeout * 2

RECURSIVE Pow2(_)
Pow2(k) == IF k = 0 THEN 1 ELSE 2 * Pow2(k - 1)

\* Duration::from_millis(500) * (1 << attempt.min(4))
retry_delay(attempt) == Pow2(IF attempt < 4 THEN attempt ELSE 4)

\* Timeouts.wait of the pool, 30 s, in units of 500 ms.
pool_wait == 30 * 2

Min(a, b) == IF a < b THEN a ELSE b

NoConn == [group |-> "", wire |-> <<>>, fin |-> "none"]

\* A batch task: where it stands, the lease loop's attempt and elapsed time,
\* the connection it holds, and how it ended: "Ok" or "Err" as its pipelined
\* call returned, "NoLease" when it got no connection.
NewBatch == [pc |-> "new", attempt |-> 0, elapsed |-> 0, conn |-> NoConn, ret |-> ""]

\* The task has ended and its locals are gone.
Ended(ret) == [NewBatch EXCEPT !.pc = "done", !.ret = ret]

NewStats ==
    [segments_downloaded |-> 0, segments_failed |-> 0, actual_size |-> 0,
     failed_message_ids |-> [m \in MessageIds |-> 0]]

Absent == [exists |-> FALSE, data |-> <<>>]

RECURSIVE CompleteFrom(_, _, _)
CompleteFrom(file, k, data) ==
    IF k > Len(file.segs) THEN data
    ELSE CompleteFrom(file, k + 1,
                      WriteAt(data, SumBytes(file.segs, k - 1),
                              ArticleData(file.segs[k].message_id)))

\* What an earlier run may have left at a file's path: nothing, the file
\* with every segment written, or the pre-allocated file with none written.
Complete(file) ==
    [exists |-> TRUE,
     data |-> CompleteFrom(file, 1, Zeros(SumBytes(file.segs, Len(file.segs))))]

Preallocated(file) ==
    [exists |-> TRUE, data |-> Zeros(SumBytes(file.segs, Len(file.segs)))]

\* The account the server knows ("bob", "pw1"), and a password it rejects.
UserName == <<98, 111, 98>>
Password == <<112, 119, 49>>
WrongPassword == <<113, 119, 50>>

\* ------------------------------------------------------------ handshake

S201 == <<50, 48, 49>>
S281 == <<50, 56, 49>>
S381 == <<51, 56, 49>>
S481 == <<52, 56, 49>>
S502 == <<53, 48, 50>>
\* "AUTHINFO USER " and "AUTHINFO PASS "
AuthInfoUser == <<65, 85, 84, 72, 73, 78, 70, 79, 32, 85, 83, 69, 82, 32>>
AuthInfoPass == <<65, 85, 84, 72, 73, 78, 70, 79, 32, 80, 65, 83, 83, 32>>
\* "Server greeting failed: ", "Authentication failed (", ")" and "Unknown"
GreetingFailed ==
    <<83, 101, 114, 118, 101, 114, 32, 103, 114, 101, 101, 116, 105, 110, 103, 32,
      102, 97, 105, 108, 101, 100, 58, 32>>
AuthenticationFailed ==
    <<65, 117, 116, 104, 101, 110, 116, 105, 99, 97, 116, 105, 111, 110, 32,
      102, 97, 105, 108, 101, 100, 32, 40>>
CloseParen == <<41>>
Unknown == <<85, 110, 107, 110, 111, 119, 110>>

\* char::is_whitespace on the ASCII range.
IsWhitespace(b) == b \in {9, 10, 11, 12, 13, 32}

\* response.split_whitespace().next().unwrap_or("Unknown")
RECURSIVE TokenFrom(_, _, _)
TokenFrom(s, i, tok) ==
    IF i > Len(s) THEN tok
    ELSE IF IsWhitespace(s[i]) THEN (IF tok = <<>> THEN TokenFrom(s, i + 1, tok) ELSE tok)
    ELSE TokenFrom(s, i + 1, Append(tok, s[i]))

sanitized(response) ==
    IF TokenFrom(response, 1, <<>>) = <<>> THEN Unknown ELSE TokenFrom(response, 1, <<>>)

\* format!("Authentication failed ({})", sanitized)
AuthFailedMessage(response) == AuthenticationFailed \o sanitized(response) \o CloseParen

\* How connect ends without a connection: the error and its message, and
\* the commands that were sent.
Failed(err, msg, sent) == [ret |-> err, msg |-> msg, sent |-> sent, conn |-> NoConn]

\* How connect ends with the connection: what is left of the stream stays in
\* the connection's reader.
Connected(rd, sent) ==
    [ret |-> "Ok", msg |-> <<>>, sent |-> sent,
     conn |-> [group |-> "", wire |-> rd.wire, fin |-> rd.fin]]

\* A read_response of the handshake that yields no line: an I/O error, or no
\* line before the pool's create timeout ends the attempt.
NoLine(resp, sent) ==
    Failed(IF resp.kind = "timeout" THEN "Timeout" ELSE "Io", <<>>, sent)

\* A variant of authenticate that takes any answer to AUTHINFO PASS.
authenticate_m(cfg, rd, hs) ==
    IF hs.wfail = 1 THEN Failed("Io", <<>>, <<>>)
    ELSE
    LET sent1 == <<AuthInfoUser \o cfg.username>>
        u == read_response(rd)
    IN  IF u.kind # "ok" THEN NoLine(u, sent1)
        ELSE IF StartsWith(u.line, S381) THEN
            IF hs.wfail = 2 THEN Failed("Io", <<>>, sent1)
            ELSE
            LET sent2 == Append(sent1, AuthInfoPass \o cfg.password)
                p == read_response(u.rd)
            IN  IF p.kind # "ok" THEN NoLine(p, sent2)
                ELSE Connected(p.rd, sent2)
        ELSE IF ~StartsWith(u.line, S281)
        THEN Failed("AuthFailed", AuthFailedMessage(u.line), sent1)
        ELSE Connected(u.rd, sent1)

\* authenticate on the reader rd; hs.wfail is the send_command that fails
\* (0: none).
authenticate(cfg, rd, hs) ==
    IF hs.wfail = 1 THEN Failed("Io", <<>>, <<>>)
    ELSE
    LET sent1 == <<AuthInfoUser \o cfg.username>>
        u == read_response(rd)
    IN  IF u.kind # "ok" THEN NoLine(u, sent1)
        ELSE IF StartsWith(u.line, S381) THEN
            IF hs.wfail = 2 THEN Failed("Io", <<>>, sent1)
            ELSE
            LET sent2 == Append(sent1, AuthInfoPass \o cfg.password)
                p == read_response(u.rd)
            IN  IF p.kind # "ok" THEN NoLine(p, sent2)
                ELSE IF ~StartsWith(p.line, S281)
                THEN Failed("AuthFailed", AuthFailedMessage(p.line), sent2)
                ELSE Connected(p.rd, sent2)
        ELSE IF ~StartsWith(u.line, S281)
        THEN Failed("AuthFailed", AuthFailedMessage(u.line), sent1)
        ELSE Connected(u.rd, sent1)

\* initialize: the greeting, then authenticate.
initialize(cfg, rd, hs) ==
    LET g == read_response(rd)
    IN  IF g.kind # "ok" THEN NoLine(g, <<>>)
        ELSE IF ~StartsWith(g.line, S200) /\ ~StartsWith(g.line, S201)
        THEN Failed("ProtocolError", GreetingFailed \o g.line, <<>>)
        ELSE authenticate(cfg, g.rd, hs)

\* AsyncNntpConnection::connect against a server that behaves as hs says:
\* hs.tcp is how TcpStream::connect (and the TLS handshake) ends, hs.lines
\* are the lines the server sends, hs.fin is how its stream ends.
connect(cfg, hs) ==
    IF hs.tcp = "timeout" THEN Failed("Timeout", <<>>, <<>>)
    ELSE IF hs.tcp = "refused" THEN Failed("ConnectionFailed", <<>>, <<>>)
    ELSE initialize(cfg, [wire |-> hs.lines, n |-> Len(hs.lines), fin |-> hs.fin], hs)

\* ------------------------------------------------------------ the pool

HoldsPermit(t) == t.pc \in {"permit", "creating", "leased"}

UsedPermits == Cardinality({fb \in AllBatches : HoldsPermit(bt[fb[1]][fb[2]])})

\* A variant of PermitFree for a pool without a size limit.
PermitFree_m == TRUE

\* Pool::builder(manager).max_size(..): a permit is free.
PermitFree == UsedPermits < config.connections

\* Dropping the pooled object: it goes to the back of the idle queue.
ReturnObject(queue, conn) == Append(queue, conn)

\* ------------------------------------------------------------ file tasks

InFlightFiles == Cardinality({f \in FileIds : fpc[f] = "running"})

\* A variant of SkipResult that counts no segment of the skipped file.
SkipResult_m(f) ==
    [file |-> f, filename |-> Filename(manifest[f]), size |-> expected_size(f),
     segments_downloaded |-> 0, segments_failed |-> 0,
     failed_message_ids |-> [m \in MessageIds |-> 0]]

SkipResult(f) ==
    [file |-> f, filename |-> Filename(manifest[f]), size |-> expected_size(f),
     segments_downloaded |-> NumSegs(f), segments_failed |-> 0,
     failed_message_ids |-> [m \in MessageIds |-> 0]]

FileResult(f) ==
    [file |-> f, filename |-> Filename(manifest[f]), size |-> stats[f].actual_size,
     segments_downloaded |-> stats[f].segments_downloaded,
     segments_failed |-> stats[f].segments_failed,
     failed_message_ids |-> stats[f].failed_message_ids]

Ok(r) == [ok |-> TRUE, file |-> r.file, value |-> r]
Err(f) == [ok |-> FALSE, file |-> f, value |-> SkipResult(f)]

\* A variant of Yield that puts the output where manifest order has it.
Yield_m(rs, r) ==
    LET before == SelectSeq(rs, LAMBDA x : x.file < r.file)
        after == SelectSeq(rs, LAMBDA x : x.file > r.file)
    IN  before \o <<r>> \o after

\* The stream of buffer_unordered yields a finished future's output.
Yield(rs, r) == Append(rs, r)

CanResume(f) ==
    /\ ~config.force_redownload
    /\ disk[OutputPath(f)].exists
    /\ Len(disk[OutputPath(f)].data) = expected_size(f)
    /\ verify_file_not_empty(disk[OutputPath(f)].data)

\* What File::create and set_len may do: both succeed, create fails, or
\* set_len fails on the created (empty) file.
CreateOutcomes == {"ok", "create_err", "set_len_err"}

\* buffer_unordered(max_concurrent_files) polls the next future of the sorted
\* list: download_file_with_pool up to its first batch.
StartFile(f) ==
    /\ ~returned.done
    /\ next_file <= Len(sorted_files)
    /\ f = sorted_files[next_file]
    /\ InFlightFiles < max_concurrent_files
    /\ next_file' = next_file + 1
    /\ IF CanResume(f)
       THEN /\ fpc' = [fpc EXCEPT ![f] = "done"]
            /\ results' = Yield(results, Ok(SkipResult(f)))
            /\ disk' = disk
       ELSE \E io \in CreateOutcomes :
            /\ disk' = [disk EXCEPT ![OutputPath(f)] =
                           CASE io = "ok" -> [exists |-> TRUE, data |-> Zeros(expected_size(f))]
                             [] io = "set_len_err" -> [exists |-> TRUE, data |-> <<>>]
                             [] OTHER -> @]
            /\ fpc' = [fpc EXCEPT ![f] = IF io = "ok" THEN "running" ELSE "done"]
            /\ results' = IF io = "ok" THEN results ELSE Yield(results, Err(f))
    /\ UNCHANGED <<config, manifest, late, stats, bt, idle, body_cmds, returned, harness>>

InFlightBatches(f) ==
    Cardinality({b \in 1..NumBatches(f) : bt[f][b].pc \notin {"new", "done"}})

\* buffer_unordered(num_connections) polls the next batch future: the first
\* pass of the lease loop (no backoff) up to pool.get_connection().
StartBatch(f, b) ==
    /\ fpc[f] = "running"
    /\ bt[f][b].pc = "new"
    /\ \A c \in 1..(b - 1) : bt[f][c].pc # "new"
    /\ InFlightBatches(f) < config.connections
    /\ bt' = [bt EXCEPT ![f][b].pc = "wait"]
    /\ UNCHANGED <<config, manifest, late, disk, next_file, fpc, stats, idle, body_cmds,
                   results, returned, harness>>

CountIds(count, requests) ==
    [m \in DOMAIN count |->
        count[m] + Cardinality({i \in 1..Len(requests) : requests[i].message_id = m})]

\* A variant of FailBatch that counts the segments without recording ids.
FailBatch_m(st, f, b) ==
    [st EXCEPT !.segments_failed = @ + Len(BatchSegs(f, b))]

\* "Mark all segments in batch as failed"
FailBatch(st, f, b) ==
    [st EXCEPT !.segments_failed = @ + Len(BatchSegs(f, b)),
               !.failed_message_ids = CountIds(@, BatchRequests(f, b))]

\* The head of the lease loop with the budget used up and no connection.
LeaseGiveUp(f, b) ==
    /\ bt[f][b].pc = "lease"
    /\ ~(bt[f][b].elapsed < max_wait)
    /\ stats' = [stats EXCEPT ![f] = FailBatch(@, f, b)]
    /\ bt' = [bt EXCEPT ![f][b] = Ended("NoLease")]
    /\ UNCHANGED <<config, manifest, late, disk, next_file, fpc, idle, body_cmds, results,
                   returned, harness>>

\* The head of the lease loop after a failed attempt, within the budget:
\* the backoff sleep, then pool.get_connection() starts.
LeaseAttempt(f, b) ==
    /\ bt[f][b].pc = "lease"
    /\ bt[f][b].elapsed < max_wait
    /\ bt' = [bt EXCEPT ![f][b].pc = "wait",
                        ![f][b].elapsed =
                            IF bt[f][b].attempt > 0
                            THEN Min(max_wait, @ + retry_delay(bt[f][b].attempt))
                            ELSE @]
    /\ UNCHANGED <<config, manifest, late, disk, next_file, fpc, stats, idle, body_cmds,
                   results, returned, harness>>

\* The pool's semaphore has a permit.
GetPermit(f, b) ==
    /\ bt[f][b].pc = "wait"
    /\ PermitFree
    /\ bt' = [bt EXCEPT ![f][b].pc = "permit"]
    /\ UNCHANGED <<config, manifest, late, disk, next_file, fpc, stats, idle, body_cmds,
                   results, returned, harness>>

\* A variant of WaitTimeout in which the failed wait uses up no time.
WaitTimeout_m(f, b) ==
    /\ bt[f][b].pc = "wait"
    /\ ~PermitFree
    /\ bt' = [bt EXCEPT ![f][b].pc = "lease"]
    /\ UNCHANGED <<config, manifest, late, disk, next_file, fpc, stats, idle, body_cmds,
                   results, returned, harness>>

\* No permit within Timeouts.wait: get_connection returns an error.
WaitTimeout(f, b) ==
    /\ bt[f][b].pc = "wait"
    /\ ~PermitFree
    /\ bt' = [bt EXCEPT ![f][b].pc = "lease",
                        ![f][b].attempt = @ + 1,
                        ![f][b].elapsed = Min(max_wait, @ + pool_wait)]
    /\ UNCHANGED <<config, manifest, late, disk, next_file, fpc, stats, idle, body_cmds,
                   results, returned, harness>>

\* With the permit: the front idle connection is recycled (Manager::recycle);
\* an unhealthy one is dropped and the next is tried.
Recycle(f, b) ==
    /\ bt[f][b].pc = "permit"
    /\ idle # <<>>
    /\ \E reply \in NoopReplies, n \in (IF late THEN {0, 1} ELSE {1}) :
        LET h == is_healthy(Head(idle), reply, n)
        IN  bt' = [bt EXCEPT ![f][b].pc = IF h.healthy THEN "leased" ELSE "permit",
                             ![f][b].conn = IF h.healthy THEN h.conn ELSE NoConn]
    /\ idle' = Tail(idle)
    /\ UNCHANGED <<config, manifest, late, disk, next_file, fpc, stats, body_cmds, results,
                   returned, harness>>

\* With the permit and no idle connection: Manager::create is called.
BeginCreate(f, b) ==
    /\ bt[f][b].pc = "permit"
    /\ idle = <<>>
    /\ bt' = [bt EXCEPT ![f][b].pc = "creating"]
    /\ UNCHANGED <<config, manifest, late, disk, next_file, fpc, stats, idle, body_cmds,
                   results, returned, harness>>

Line(s) == s \o CRLF

\* The server of a run: it accepts UserName with Password and rejects any
\* other account; a new connection to it may also fail to be established.
ServerHandshakes(cfg) ==
    IF cfg.username = UserName /\ cfg.password = Password
    THEN {[tcp |-> "ok", lines |-> <<Line(S200), Line(S381), Line(S281)>>,
           fin |-> "open", wfail |-> 0],
          [tcp |-> "refused", lines |-> <<>>, fin |-> "open", wfail |-> 0]}
    ELSE {[tcp |-> "ok", lines |-> <<Line(S200), Line(S381), Line(S481)>>,
           fin |-> "open", wfail |-> 0]}

\* The lease loop after create returned r: the task holds the connection,
\* or the error is dropped and the attempt counted ("Ok(Err(_)) | Err(_)").
Created(f, b, r) ==
    bt' = [bt EXCEPT ![f][b].pc = IF r.ret = "Ok" THEN "leased" ELSE "lease",
                     ![f][b].conn = r.conn,
                     ![f][b].attempt = IF r.ret = "Ok" THEN @ ELSE @ + 1]

\* Manager::create ends: a connected, authenticated connection, or an error.
Create(f, b) ==
    /\ bt[f][b].pc = "creating"
    /\ \E hs \in ServerHandshakes(config) : Created(f, b, connect(config, hs))
    /\ UNCHANGED <<config, manifest, late, disk, next_file, fpc, stats, idle, body_cmds,
                   results, returned, harness>>

\* The number of lines of the first k replies.
RECURSIVE LinesOf(_, _)
LinesOf(replies, k) == IF k = 0 THEN 0 ELSE Len(replies[k]) + LinesOf(replies, k - 1)

\* What the server does during one pipelined call on conn: the lines it
\* sends for GROUP and for each BODY (it may stop answering after any
\* reply, or never answer), how many lines arrive in time, and how the
\* stream ends. Lines that do not arrive in time arrive later (late only).
Scripts(conn, requests) ==
    UNION { LET replies == [i \in 1..Len(requests) |->
                               IF i <= k THEN BodyReply(kinds[i], requests[i].message_id)
                               ELSE <<>>]
                total == Len(conn.wire) + 1 + LinesOf(replies, Len(replies))
            IN  { [grp |-> grp, replies |-> replies, n |-> n, fin |-> fin] :
                    grp \in GroupReplies,
                    n \in (IF late THEN 0..total ELSE {total}),
                    fin \in Fins } :
            kinds \in [1..Len(requests) -> ReplyKinds], k \in 0..Len(requests) }
    \cup { [grp |-> <<>>, replies |-> [i \in 1..Len(requests) |-> <<>>],
            n |-> Len(conn.wire), fin |-> fin] : fin \in Fins }

\* offset_map: segment_number -> offset, collected from the batch (a later
\* pair replaces an earlier one with the same key).
OffsetIndex(f, b, seg_num) ==
    LET hits == {i \in 1..Len(BatchSegs(f, b)) :
                    BatchRequests(f, b)[i].segment_number = seg_num}
    IN  IF hits = {} THEN 0 ELSE CHOOSE i \in hits : \A j \in hits : j <= i

\* requests.iter().find(|r| r.segment_number == seg_num)
FindIndex(f, b, seg_num) ==
    LET hits == {i \in 1..Len(BatchSegs(f, b)) :
                    BatchRequests(f, b)[i].segment_number = seg_num}
    IN  IF hits = {} THEN 0 ELSE CHOOSE i \in hits : \A j \in hits : i <= j

\* A variant of Account that leaves a seek or write error uncounted.
Account_m(st, f, b, res, io) ==
    LET hit == FindIndex(f, b, res[1])
    IN  IF res[2].some THEN
            IF OffsetIndex(f, b, res[1]) = 0 \/ io # "ok" THEN st
            ELSE [st EXCEPT !.segments_downloaded = @ + 1,
                            !.actual_size = @ + Len(res[2].bytes)]
        ELSE [st EXCEPT !.segments_failed = @ + 1,
                        !.failed_message_ids =
                            IF hit = 0 THEN @
                            ELSE [@ EXCEPT ![BatchRequests(f, b)[hit].message_id] = @ + 1]]

IoOutcomes == {"ok", "seek_err", "write_err"}

\* The counters after one (seg_num, data) pair, io being what the seek and
\* the write do.
Account(st, f, b, res, io) ==
    LET seg_num == res[1]
        data == res[2]
        hit == FindIndex(f, b, seg_num)
    IN  IF data.some THEN
            IF OffsetIndex(f, b, seg_num) = 0 THEN st
            ELSE IF io # "ok" THEN [st EXCEPT !.segments_failed = @ + 1]
            ELSE [st EXCEPT !.segments_downloaded = @ + 1,
                            !.actual_size = @ + Len(data.bytes)]
        ELSE [st EXCEPT !.segments_failed = @ + 1,
                        !.failed_message_ids =
                            IF hit = 0 THEN @
                            ELSE [@ EXCEPT ![BatchRequests(f, b)[hit].message_id] = @ + 1]]

\* The file after one (seg_num, data) pair.
Store(data, f, b, res, io) ==
    LET k == OffsetIndex(f, b, res[1])
    IN  IF res[2].some /\ k # 0 /\ io = "ok"
        THEN WriteAt(data, segment_offset(f, BatchSegs(f, b)[k]), res[2].bytes)
        ELSE data

\* "for (seg_num, data) in results" from the i-th pair on, ios[i] being what
\* the i-th seek and write do.
RECURSIVE WriteResults(_, _, _, _, _, _, _)
WriteResults(st, data, f, b, res, ios, i) ==
    IF i > Len(res) THEN [stats |-> st, data |-> data]
    ELSE WriteResults(Account(st, f, b, res[i], ios[i]),
                      Store(data, f, b, res[i], ios[i]), f, b, res, ios, i + 1)

\* Seeks and writes happen (and so can fail) for Some data only.
IoChoices(res) ==
    {ios \in [1..Len(res) -> IoOutcomes] :
        \A i \in 1..Len(res) : ~res[i][2].some => ios[i] = "ok"}

\* A variant of BatchOutcome whose Err arm keeps what was received: those
\* pairs written and counted, the rest of the batch failed.
BatchOutcome_m(st, data, f, b, r, ios) ==
    IF r.ret = "Ok" THEN WriteResults(st, data, f, b, r.results, ios, 1)
    ELSE LET w == WriteResults(st, data, f, b, r.partial,
                               [i \in 1..Len(r.partial) |-> "ok"], 1)
         IN  [stats |-> [w.stats EXCEPT !.segments_failed =
                                            @ + Len(BatchSegs(f, b)) - Len(r.partial)],
              data |-> w.data]

\* The match on the pipelined call's return value r: Ok, the pairs are
\* written and counted; Err, "Failed - mark all as failed".
BatchOutcome(st, data, f, b, r, ios) ==
    IF r.ret = "Ok" THEN WriteResults(st, data, f, b, r.results, ios, 1)
    ELSE [stats |-> FailBatch(st, f, b), data |-> data]

\* conn.download_segments_pipelined(&requests).await and the handling of its
\* result; then the task ends and drops the connection.
Download(f, b) ==
    /\ bt[f][b].pc = "leased"
    /\ \E script \in Scripts(bt[f][b].conn, BatchRequests(f, b)) :
        LET r == download_segments_pipelined(bt[f][b].conn, BatchRequests(f, b), script)
        IN  /\ body_cmds' = IF r.body_sent THEN CountIds(body_cmds, BatchRequests(f, b))
                            ELSE body_cmds
            /\ bt' = [bt EXCEPT ![f][b] = Ended(r.ret)]
            /\ idle' = ReturnObject(idle, r.conn)
            /\ \E ios \in IoChoices(r.results) :
                LET w == BatchOutcome(stats[f], disk[OutputPath(f)].data, f, b, r, ios)
                IN  /\ stats' = [stats EXCEPT ![f] = w.stats]
                    /\ disk' = [disk EXCEPT ![OutputPath(f)].data = w.data]
    /\ UNCHANGED <<config, manifest, late, next_file, fpc, results, returned, harness>>

\* All batches of the file have ended: sync_all, then the DownloadResult (or
\* the sync error) is what the file's future yields.
FinishFile(f) ==
    /\ fpc[f] = "running"
    /\ \A b \in 1..NumBatches(f) : bt[f][b].pc = "done"
    /\ \E synced \in BOOLEAN :
        results' = Yield(results, IF synced THEN Ok(FileResult(f)) ELSE Err(f))
    /\ fpc' = [fpc EXCEPT ![f] = "done"]
    /\ UNCHANGED <<config, manifest, late, disk, next_file, stats, bt, idle, body_cmds,
                   returned, harness>>

\* "Collect successful results"
successful_results(rs) ==
    LET kept == SelectSeq(rs, LAMBDA r : r.ok)
    IN  [i \in 1..Len(kept) |-> kept[i].value]

\* Every future has yielded: download_nzb returns Ok(successful_results).
Return ==
    /\ ~returned.done
    /\ manifest # <<>>
    /\ \A f \in FileIds : fpc[f] = "done"
    /\ returned' = [done |-> TRUE, value |-> successful_results(results), err |-> ""]
    /\ UNCHANGED <<config, manifest, late, disk, next_file, fpc, stats, bt, idle,
                   body_cmds, results, harness>>

\* A variant of RejectEmpty that returns the empty vector of results.
RejectEmpty_m ==
    /\ ~returned.done
    /\ manifest = <<>>
    /\ returned' = [done |-> TRUE, value |-> <<>>, err |-> ""]
    /\ UNCHANGED <<config, manifest, late, disk, next_file, fpc, stats, bt, idle,
                   body_cmds, results, harness>>

\* download_nzb on a manifest without files: the early return.
RejectEmpty ==
    /\ ~returned.done
    /\ manifest = <<>>
    /\ returned' = [done |-> TRUE, value |-> <<>>, err |-> "InsufficientSegments"]
    /\ UNCHANGED <<config, manifest, late, disk, next_file, fpc, stats, bt, idle,
                   body_cmds, results, harness>>

\* The batch tasks of file f when the pool gives none of them a connection:
\* each runs its lease loop until max_wait has elapsed, counts its segments
\* failed and ends (StartBatch, the lease steps and LeaseGiveUp of every
\* batch, taken as one step).
RECURSIVE FailFrom(_, _, _)
FailFrom(st, f, b) ==
    IF b > NumBatches(f) THEN st ELSE FailFrom(FailBatch(st, f, b), f, b + 1)

GiveUpAll(f) ==
    /\ fpc[f] = "running"
    /\ \A b \in 1..NumBatches(f) : bt[f][b].pc = "new"
    /\ stats' = [stats EXCEPT ![f] = FailFrom(@, f, 1)]
    /\ bt' = [bt EXCEPT ![f] = [b \in 1..NumBatches(f) |-> Ended("NoLease")]]
    /\ UNCHANGED <<config, manifest, late, disk, next_file, fpc, idle, body_cmds, results,
                   returned, harness>>

\* The file-level scheduler alone.
NextFiles ==
    \/ \E f \in FileIds : StartFile(f)
    \/ \E f \in FileIds : GiveUpAll(f)
    \/ \E f \in FileIds : FinishFile(f)
    \/ Return

Next ==
    \/ \E f \in FileIds : StartFile(f)
    \/ \E fb \in AllBatches : StartBatch(fb[1], fb[2])
    \/ \E fb \in AllBatches : LeaseGiveUp(fb[1], fb[2])
    \/ \E fb \in AllBatches : LeaseAttempt(fb[1], fb[2])
    \/ \E fb \in AllBatches : GetPermit(fb[1], fb[2])
    \/ \E fb \in AllBatches : WaitTimeout(fb[1], fb[2])
    \/ \E fb \in AllBatches : Recycle(fb[1], fb[2])
    \/ \E fb \in AllBatches : BeginCreate(fb[1], fb[2])
    \/ \E fb \in AllBatches : Create(fb[1], fb[2])
    \/ \E fb \in AllBatches : Download(fb[1], fb[2])
    \/ \E f \in FileIds : FinishFile(f)
    \/ Return

\* download_nzb from its first statement.
NextNzb == Next \/ RejectEmpty

\* ------------------------------------------------ one connection alone
\* harness drives the batch task's body and the pool's recycle on a single
\* connection: harness.conn is the connection, harness.script what the
\* server did during the pipelined call, harness.r what the call returned.

HarnessOff == [phase |-> "off"]

\* The batch task of file 1, batch 1 with the leased connection harness.conn.
HDownload ==
    /\ harness.phase = "leased"
    /\ \E script \in Scripts(harness.conn, BatchRequests(1, 1)) :
        LET r == download_segments_pipelined(harness.conn, BatchRequests(1, 1), script)
        IN  /\ body_cmds' = IF r.body_sent THEN CountIds(body_cmds, BatchRequests(1, 1))
                            ELSE body_cmds
            /\ idle' = ReturnObject(idle, r.conn)
            /\ harness' = [phase |-> "returned", conn |-> harness.conn,
                           script |-> script, r |-> r]
            /\ \E ios \in IoChoices(r.results) :
                LET w == BatchOutcome(stats[1], disk[OutputPath(1)].data, 1, 1, r, ios)
                IN  /\ stats' = [stats EXCEPT ![1] = w.stats]
                    /\ disk' = [disk EXCEPT ![OutputPath(1)].data = w.data]
    /\ UNCHANGED <<config, manifest, late, next_file, fpc, bt, results, returned>>

\* The next get_connection: Manager::recycle on the returned connection.
HRecycle ==
    /\ harness.phase = "returned"
    /\ \E reply \in NoopReplies, n \in (IF late THEN {0, 1} ELSE {1}) :
        LET h == is_healthy(Head(idle), reply, n)
        IN  harness' = [phase |-> "recycled", conn |-> h.conn,
                        script |-> harness.script, r |-> harness.r,
                        noop |-> reply, healthy |-> h.healthy]
    /\ idle' = Tail(idle)
    /\ UNCHANGED <<config, manifest, late, disk, next_file, fpc, stats, bt, body_cmds,
                   results, returned>>

\* Manager::create for the batch task of file 1, batch 1 against the server
\* harness.hs.
HConnect ==
    /\ harness.phase = "connecting"
    /\ bt[1][1].pc = "creating"
    /\ harness' = [phase |-> "connected", hs |-> harness.hs, r |-> connect(config, harness.hs)]
    /\ Created(1, 1, connect(config, harness.hs))
    /\ UNCHANGED <<config, manifest, late, disk, next_file, fpc, stats, idle, body_cmds,
                   results, returned>>

NextAuth == HConnect

NextConn == HDownload \/ HRecycle

\* Both calls for the single request of file 1, batch 1, started on
\* harness.conn against the same server.
HCompare ==
    /\ harness.phase = "one"
    /\ \E script \in Scripts(harness.conn, BatchRequests(1, 1)) :
        harness' = [phase |-> "compared", conn |-> harness.conn, script |-> script,
                    p |-> download_segments_pipelined(harness.conn, BatchRequests(1, 1), script),
                    s |-> download_segment(harness.conn, BatchRequests(1, 1)[1], script)]
    /\ UNCHANGED <<config, manifest, late, disk, next_file, fpc, stats, bt, idle, body_cmds,
                   results, returned>>

NextOne == HCompare

\* The three line decoders on the line harness.line, each appending to its
\* own copy of the buffer harness.out.
HDecodeLine ==
    /\ harness.phase = "line"
    /\ harness' = [phase |-> "decoded", line |-> harness.line, out |-> harness.out,
                   fast |-> decode_yenc_fast(harness.line, harness.out),
                   scalar |-> decode_yenc_scalar(harness.line, harness.out),
                   simd |-> decode_yenc_line_simd(harness.line, harness.out)]
    /\ UNCHANGED <<config, manifest, late, disk, next_file, fpc, stats, bt, idle, body_cmds,
                   results, returned>>

NextLine == HDecodeLine

\* An article as the posting side lays it out: =ybegin, the encoded bytes in
\* lines of `width` bytes, =yend, each line closed by `eol`.
RECURSIVE WrapFrom(_, _, _, _)
WrapFrom(encoded, width, eol, i) ==
    IF i > Len(encoded) THEN <<>>
    ELSE LET last == IF i + width - 1 < Len(encoded) THEN i + width - 1 ELSE Len(encoded)
         IN  SubSeq(encoded, i, last) \o eol \o WrapFrom(encoded, width, eol, last + 1)

YencArticle(encoded, width, eol) ==
    YBegin \o eol \o WrapFrom(encoded, width, eol, 1) \o YEnd \o eol

\* harness.data encoded without escapes, laid out as an article and decoded.
HRoundTrip ==
    /\ harness.phase = "plain"
    /\ LET article == YencArticle(Encode(harness.data), harness.width, harness.eol)
       IN  harness' = [phase |-> "roundtrip", data |-> harness.data,
                       width |-> harness.width, eol |-> harness.eol,
                       article |-> article, decoded |-> decode_yenc_simple(article)]
    /\ UNCHANGED <<config, manifest, late, disk, next_file, fpc, stats, bt, idle, body_cmds,
                   results, returned>>

NextYenc == HRoundTrip

\* A 222 reply whose article is laid out by `body`: an =ybegin line or
\* none, one data line or none, an =yend line or none, and the terminating
\* '.' line unless the server stops before it (~body.dot).
ArticleReply(body) ==
    << S222 \o CRLF >>
    \o (IF body.begin THEN << YBegin \o CRLF >> ELSE << >>)
    \o (IF body.line # <<>> THEN << body.line \o CRLF >> ELSE << >>)
    \o (IF body.end THEN << YEnd \o CRLF >> ELSE << >>)
    \o (IF body.dot THEN << DotLine \o CRLF >> ELSE << >>)

\* What the server does during a pipelined call for one request that it
\* answers with `reply`.
ReplyScripts(conn, reply) ==
    LET total == Len(conn.wire) + 1 + Len(reply)
    IN  { [grp |-> grp, replies |-> <<reply>>, n |-> n, fin |-> fin] :
            grp \in GroupReplies,
            n \in (IF late THEN 0..total ELSE {total}),
            fin \in Fins }

\* The batch task of file 1, batch 1 with the leased connection
\* harness.conn, against a server that has the article harness.body.
HBody ==
    /\ harness.phase = "article"
    /\ \E script \in ReplyScripts(harness.conn, ArticleReply(harness.body)) :
        LET r == download_segments_pipelined(harness.conn, BatchRequests(1, 1), script)
        IN  /\ body_cmds' = IF r.body_sent THEN CountIds(body_cmds, BatchRequests(1, 1))
                            ELSE body_cmds
            /\ idle' = ReturnObject(idle, r.conn)
            /\ harness' = [phase |-> "fetched", conn |-> harness.conn,
                           body |-> harness.body, script |-> script, r |-> r]
            /\ \E ios \in IoChoices(r.results) :
                LET w == BatchOutcome(stats[1], disk[OutputPath(1)].data, 1, 1, r, ios)
                IN  /\ stats' = [stats EXCEPT ![1] = w.stats]
                    /\ disk' = [disk EXCEPT ![OutputPath(1)].data = w.data]
    /\ UNCHANGED <<config, manifest, late, next_file, fpc, bt, results, returned>>

NextBody == HBody

\* ------------------------------------------------ the pipelined call in steps
\* download_segments_pipelined as the sequence of its awaits. harness.pc is
\* where the call stands: "group" (GROUP exchange), "write" (the loop of
\* write_all), "flush", "read" (the response loop), "done". written counts
\* the BODY commands handed to the writer, reads the iterations of the
\* response loop that were entered, failed names the send that returned an
\* I/O error.

CallStart(conn, requests, script) ==
    [phase |-> "call",
     pc |-> IF requests = <<>> THEN "done"
            ELSE IF conn.group # requests[1].group THEN "group" ELSE "write",
     conn |-> conn, requests |-> requests, script |-> script, group |-> conn.group,
     rd |-> [wire |-> conn.wire, n |-> script.n, fin |-> script.fin],
     written |-> 0, flushed |-> FALSE, reads |-> 0, results |-> <<>>,
     ret |-> IF requests = <<>> THEN "Ok" ELSE "", failed |-> ""]

CallFailed(h, at) == [h EXCEPT !.pc = "done", !.ret = "Err", !.results = <<>>, !.failed = at]

SendOutcomes == {"ok", "io_err"}

\* send_command("GROUP ..") and the response read with its 10 s timeout.
HGroup ==
    /\ harness.phase = "call" /\ harness.pc = "group"
    /\ \E io \in SendOutcomes :
        LET resp == read_response([harness.rd EXCEPT !.wire = @ \o harness.script.grp])
        IN  harness' =
                IF io # "ok" THEN CallFailed(harness, "group")
                ELSE IF resp.kind = "ok" /\ StartsWith(resp.line, S211)
                THEN [harness EXCEPT !.pc = "write", !.rd = resp.rd,
                                     !.group = harness.requests[1].group]
                ELSE [harness EXCEPT !.pc = "done", !.ret = "Err", !.rd = resp.rd]
    /\ UNCHANGED <<config, manifest, late, disk, next_file, fpc, stats, bt, idle, body_cmds,
                   results, returned>>

\* A write loop that leaves for the flush after its first command.
HWrite_m ==
    /\ harness.phase = "call" /\ harness.pc = "write"
    /\ \E io \in SendOutcomes :
        harness' = IF io # "ok" THEN CallFailed(harness, "write")
                   ELSE [harness EXCEPT !.written = @ + 1, !.pc = "flush"]
    /\ UNCHANGED <<config, manifest, late, disk, next_file, fpc, stats, bt, idle, body_cmds,
                   results, returned>>

\* One iteration of `for req in requests { write_all(BODY ..)? }`.
HWrite ==
    /\ harness.phase = "call" /\ harness.pc = "write"
    /\ \E io \in SendOutcomes :
        harness' = IF io # "ok" THEN CallFailed(harness, "write")
                   ELSE [harness EXCEPT
                            !.written = @ + 1,
                            !.pc = IF harness.written + 1 = Len(harness.requests)
                                   THEN "flush" ELSE "write"]
    /\ UNCHANGED <<config, manifest, late, disk, next_file, fpc, stats, bt, idle, body_cmds,
                   results, returned>>

\* writer.flush()?: the commands reach the server, which answers as the
\* script says.
HFlush ==
    /\ harness.phase = "call" /\ harness.pc = "flush"
    /\ \E io \in SendOutcomes :
        harness' = IF io # "ok" THEN CallFailed(harness, "flush")
                   ELSE [harness EXCEPT !.flushed = TRUE, !.pc = "read",
                                        !.rd.wire = @ \o Flatten(harness.script.replies)]
    /\ UNCHANGED <<config, manifest, late, disk, next_file, fpc, stats, bt, idle, body_cmds,
                   results, returned>>

\* One iteration of the response loop.
HRead ==
    /\ harness.phase = "call" /\ harness.pc = "read"
    /\ LET i == harness.reads + 1
           step == PipelineFrom(<<harness.requests[i]>>, 1, harness.rd, <<>>)
       IN  harness' =
               IF step.ret # "Ok"
               THEN [harness EXCEPT !.pc = "done", !.ret = "Err", !.results = <<>>,
                                    !.reads = i, !.rd = step.rd]
               ELSE [harness EXCEPT
                        !.reads = i, !.rd = step.rd,
                        !.results = @ \o step.results,
                        !.pc = IF i = Len(harness.requests) THEN "done" ELSE "read",
                        !.ret = IF i = Len(harness.requests) THEN "Ok" ELSE ""]
    /\ UNCHANGED <<config, manifest, late, disk, next_file, fpc, stats, bt, idle, body_cmds,
                   results, returned>>

NextPipe == HGroup \/ HWrite \/ HFlush \/ HRead

\* ------------------------------------------------ calls on one connection
\* harness.conn is the connection, harness.acked the group of the last GROUP
\* command the server answered with 211 ("" before the first), harness.last
\* the call that was made last: the connection before it, the group it
\* asked for, the server's script and what the call returned.

MaxCalls == 2

\* One more call on the connection: download_segment or
\* download_segments_pipelined for the batch of one of the files.
HCall ==
    /\ harness.phase = "conn"
    /\ harness.calls < MaxCalls
    /\ \E f \in FileIds, pipelined \in BOOLEAN :
        \E script \in Scripts(harness.conn, BatchRequests(f, 1)) :
            LET requests == BatchRequests(f, 1)
                r == IF pipelined
                     THEN download_segments_pipelined(harness.conn, requests, script)
                     ELSE download_segment(harness.conn, requests[1], script)
                answered == harness.conn.fin = "open" /\ r.group_sent
            IN  harness' = [phase |-> "conn", conn |-> r.conn, calls |-> harness.calls + 1,
                            acked |-> IF answered /\ script.grp = <<S211 \o CRLF>>
                                      THEN requests[1].group ELSE harness.acked,
                            last |-> [before |-> harness.conn, group |-> requests[1].group,
                                      pipelined |-> pipelined, script |-> script,
                                      answered |-> answered,
                                      ret |-> r.ret, group_sent |-> r.group_sent,
                                      body_sent |-> r.body_sent]]
    /\ UNCHANGED <<config, manifest, late, disk, next_file, fpc, stats, bt, idle, body_cmds,
                   results, returned>>

NextGroup == HCall

\* ------------------------------------------------ availability check

SampleLimit == 20

\* A variant of sample_requests that samples every file of the manifest.
sample_requests_m ==
    LET with_segment == SelectSeq(manifest, LAMBDA file : file.segs # <<>>)
    IN  [i \in 1..Len(with_segment) |->
            [message_id |-> with_segment[i].segs[1].message_id,
             group |-> manifest[1].group,
             segment_number |-> with_segment[i].segs[1].number]]

\* "for file in all_files.iter().take(20)": the first segment of each file
\* that has one, all with the first file's group.
sample_requests ==
    LET taken == SubSeq(manifest, 1, Min(SampleLimit, Len(manifest)))
        with_segment == SelectSeq(taken, LAMBDA file : file.segs # <<>>)
    IN  [i \in 1..Len(with_segment) |->
            [message_id |-> with_segment[i].segs[1].message_id,
             group |-> manifest[1].group,
             segment_number |-> with_segment[i].segs[1].number]]

StatReply(kind) ==
    CASE kind = "223" -> Line(S223)
      [] kind = "430" -> Line(S430)
      [] OTHER -> Line(S500)

\* The non-decreasing sequences of k values in 1..top.
Arrivals(k, top) ==
    {a \in [1..k -> 1..top] : \A j \in 1..k : j < k => a[j] <= a[j + 1]}

\* What the server does during check_articles_exist: for up to two requests
\* it answers the first k with any of 223, 430, 500, each answer arriving at
\* once or (late only) during a later read or after the call, the stream
\* open, closed or reset, and a write may fail; for more requests it answers
\* all at once, 223 to all, 430 to all, or 430 to one.
StatScripts(requests) ==
    LET n == Len(requests)
    IN  IF n <= 2 THEN
            UNION {{[lines |-> [j \in 1..k |-> StatReply(kinds[j])], arrive |-> a,
                     fin |-> fin, wfail |-> 0] :
                        a \in Arrivals(k, IF late THEN n + 1 ELSE 1), fin \in Fins} :
                   kinds \in [1..n -> {"223", "430", "500"}], k \in 0..n}
            \cup {[lines |-> <<>>, arrive |-> <<>>, fin |-> "open", wfail |-> w] : w \in 1..n}
        ELSE {[lines |-> [j \in 1..n |-> StatReply(IF j = odd THEN "430" ELSE "223")],
               arrive |-> [j \in 1..n |-> 1], fin |-> "open", wfail |-> 0] : odd \in 0..n}
             \cup {[lines |-> [j \in 1..n |-> StatReply("430")],
                    arrive |-> [j \in 1..n |-> 1], fin |-> "open", wfail |-> 0]}

\* results.iter().filter(|(_, exists)| *exists).count()
Available(pairs) == Cardinality({i \in 1..Len(pairs) : pairs[i][2]})

NoCheck == [ret |-> "Ok", pairs |-> <<>>, sent |-> <<>>, reads_after |-> 0, conn |-> NoConn]

\* check_availability's return value.
OkCounts(pairs) ==
    [ok |-> TRUE, available |-> Available(pairs),
     missing |-> Len(pairs) - Available(pairs), total |-> Len(pairs)]

ErrCounts == [ok |-> FALSE, available |-> 0, missing |-> 0, total |-> 0]

\* handle_download_mode reaches the pre-flight check of an NZB and JSON
\* output is off: check_availability on a pool without idle connection.
HCheck ==
    /\ harness.phase = "nzb"
    /\ ~harness.json
    /\ idle = <<>>
    /\ IF manifest = <<>>
       THEN /\ harness' = [phase |-> "checked", json |-> harness.json, leased |-> FALSE,
                           r |-> NoCheck, result |-> OkCounts(<<>>)]
            /\ idle' = idle
       ELSE \E hs \in ServerHandshakes(config) :
            LET c == connect(config, hs)
            IN  IF c.ret # "Ok"
                THEN /\ harness' = [phase |-> "checked", json |-> harness.json,
                                    leased |-> FALSE, r |-> NoCheck, result |-> ErrCounts]
                     /\ idle' = idle
                ELSE \E script \in StatScripts(sample_requests) :
                     LET r == check_articles_exist(c.conn, sample_requests, script)
                     IN  /\ harness' = [phase |-> "checked", json |-> harness.json,
                                        leased |-> TRUE, r |-> r, script |-> script,
                                        result |-> IF r.ret = "Ok" THEN OkCounts(r.pairs)
                                                   ELSE ErrCounts]
                         /\ idle' = ReturnObject(idle, r.conn)
    /\ UNCHANGED <<config, manifest, late, disk, next_file, fpc, stats, bt, body_cmds,
                   results, returned>>

\* A variant of HDecide that goes on to download_nzb whatever was found.
HDecide_m ==
    /\ \/ harness.phase = "checked"
       \/ harness.phase = "nzb" /\ harness.json
    /\ LET checked == harness.phase = "checked"
           found == checked /\ harness.result.ok /\ harness.result.total > 0
           warned == found /\ harness.result.available < harness.result.total
       IN  harness' = [phase |-> "download",
                       json |-> harness.json, checked |-> checked, warned |-> warned,
                       result |-> IF checked THEN harness.result ELSE ErrCounts,
                       pairs |-> IF checked THEN harness.r.pairs ELSE <<>>]
    /\ UNCHANGED <<config, manifest, late, disk, next_file, fpc, stats, bt, idle, body_cmds,
                   results, returned>>

\* handle_download_mode after the pre-flight check, or without it when JSON
\* output is on: `continue` to the next NZB, or go on to download_nzb,
\* with a warning when fewer than all sampled articles were found.
HDecide ==
    /\ \/ harness.phase = "checked"
       \/ harness.phase = "nzb" /\ harness.json
    /\ LET checked == harness.phase = "checked"
           found == checked /\ harness.result.ok /\ harness.result.total > 0
           none == found /\ harness.result.available = 0
           warned == found /\ ~none /\ harness.result.available < harness.result.total
       IN  harness' = [phase |-> IF none THEN "skipped" ELSE "download",
                       json |-> harness.json, checked |-> checked, warned |-> warned,
                       result |-> IF checked THEN harness.result ELSE ErrCounts,
                       pairs |-> IF checked THEN harness.r.pairs ELSE <<>>]
    /\ UNCHANGED <<config, manifest, late, disk, next_file, fpc, stats, bt, idle, body_cmds,
                   results, returned>>

NextAvail == HCheck \/ HDecide

\* ------------------------------------------------------ specifications

\* The state when download_nzb is called with cfg on mf over the directory d.
InitRun(cfg, mf, d) ==
    /\ config = cfg
    /\ manifest = mf
    /\ disk = d
    /\ next_file = 1
    /\ fpc = [f \in 1..Len(mf) |-> "pending"]
    /\ stats = [f \in 1..Len(mf) |-> NewStats]
    /\ bt = [f \in 1..Len(mf) |-> [b \in 1..NumBatches(f) |-> NewBatch]]
    /\ idle = <<>>
    /\ body_cmds = [m \in MessageIds |-> 0]
    /\ results = <<>>
    /\ returned = [done |-> FALSE, value |-> <<>>, err |-> ""]

Connections == 1
PipelineSize == 1
ConnectionWaitTimeout == 1

\* Two files, the second with two batches, on a pool of Connections; every
\* line the server sends arrives in time or is never sent.
Init ==
    /\ late = FALSE
    /\ harness = HarnessOff
    /\ \E left \in {Absent, Complete(FileB)} :
        InitRun([connections |-> Connections, pipeline_size |-> PipelineSize,
                 connection_wait_timeout |-> ConnectionWaitTimeout,
                 force_redownload |-> FALSE,
                 username |-> UserName, password |-> Password],
                <<FileB, FileA2>>,
                (Filename(FileB) :> left) @@ (Filename(FileA2) :> Absent))

Spec == Init /\ [][Next]_vars

\* The scheduling the runtime gives: a task that can take a step takes one,
\* a pending timeout fires.
FairSpec == Spec /\ WF_vars(Next)

\* The run of Init with the password the server knows or with another one.
InitCred ==
    /\ late = FALSE
    /\ harness = HarnessOff
    /\ \E left \in {Absent, Complete(FileB)}, pw \in {Password, WrongPassword} :
        InitRun([connections |-> Connections, pipeline_size |-> PipelineSize,
                 connection_wait_timeout |-> ConnectionWaitTimeout,
                 force_redownload |-> FALSE,
                 username |-> UserName, password |-> pw],
                <<FileB, FileA2>>,
                (Filename(FileB) :> left) @@ (Filename(FileA2) :> Absent))

SpecCred == InitCred /\ [][Next]_vars

\* Two files whose subjects yield the same filename, nothing on disk.
InitSame ==
    /\ late = FALSE
    /\ harness = HarnessOff
    /\ InitRun([connections |-> Connections, pipeline_size |-> PipelineSize,
                connection_wait_timeout |-> ConnectionWaitTimeout,
                force_redownload |-> FALSE,
                username |-> UserName, password |-> Password],
               <<FileB, FileD>>,
               [p \in {Filename(FileB), Filename(FileD)} |-> Absent])

SpecSame == InitSame /\ [][Next]_vars

\* The same run against a server whose lines may arrive after the client
\* has given up waiting for them.
InitLate ==
    /\ late = TRUE
    /\ harness = HarnessOff
    /\ InitRun([connections |-> Connections, pipeline_size |-> PipelineSize,
                connection_wait_timeout |-> ConnectionWaitTimeout,
                force_redownload |-> FALSE,
                username |-> UserName, password |-> Password],
               <<FileB, FileA2>>,
               (Filename(FileB) :> Absent) @@ (Filename(FileA2) :> Absent))

SpecLate == InitLate /\ [][Next]_vars

ConnPipelineSize == 3

\* A batch task of FileA (one batch of three requests) holding a connection
\* that is new, or has served a batch of the same group before; the output
\* file is pre-allocated.
InitConn ==
    /\ late = FALSE
    /\ config = [connections |-> Connections, pipeline_size |-> ConnPipelineSize,
                 connection_wait_timeout |-> ConnectionWaitTimeout,
                 force_redownload |-> FALSE,
                 username |-> UserName, password |-> Password]
    /\ manifest = <<FileA>>
    /\ disk = (Filename(FileA) :> Preallocated(FileA))
    /\ next_file = 2
    /\ fpc = <<"running">>
    /\ stats = <<NewStats>>
    /\ bt = <<<<[NewBatch EXCEPT !.pc = "leased"]>>>>
    /\ idle = <<>>
    /\ body_cmds = [m \in MessageIds |-> 0]
    /\ results = <<>>
    /\ returned = [done |-> FALSE, value |-> <<>>, err |-> ""]
    /\ \E conn \in {NewConnection, [NewConnection EXCEPT !.group = FileA.group]} :
        harness = [phase |-> "leased", conn |-> conn]

SpecConn == InitConn /\ [][NextConn]_vars

\* The same batch task on FileC.
InitSize ==
    /\ late = FALSE
    /\ config = [connections |-> Connections, pipeline_size |-> ConnPipelineSize,
                 connection_wait_timeout |-> ConnectionWaitTimeout,
                 force_redownload |-> FALSE,
                 username |-> UserName, password |-> Password]
    /\ manifest = <<FileC>>
    /\ disk = (Filename(FileC) :> Preallocated(FileC))
    /\ next_file = 2
    /\ fpc = <<"running">>
    /\ stats = <<NewStats>>
    /\ bt = <<<<[NewBatch EXCEPT !.pc = "leased"]>>>>
    /\ idle = <<>>
    /\ body_cmds = [m \in MessageIds |-> 0]
    /\ results = <<>>
    /\ returned = [done |-> FALSE, value |-> <<>>, err |-> ""]
    /\ \E conn \in {NewConnection, [NewConnection EXCEPT !.group = FileC.group]} :
        harness = [phase |-> "leased", conn |-> conn]

SpecSize == InitSize /\ [][NextConn]_vars

\* What may be at a file's path when download_nzb starts: nothing, the
\* complete file, the pre-allocated file without data, or a shorter file.
LeftKinds == {"absent", "complete", "zeros", "short"}

Left(file, kind) ==
    CASE kind = "complete" -> Complete(file)
      [] kind = "zeros" -> Preallocated(file)
      [] kind = "short" -> [exists |-> TRUE, data |-> <<1>>]
      [] OTHER -> Absent

\* download_nzb on no file, on one file or on two, over every such
\* directory, with and without force_redownload. The directory of the run
\* on no file has one path, with nothing at it.
InitNzb ==
    /\ late = FALSE
    /\ harness = HarnessOff
    /\ \E mf \in {<<>>, <<FileB>>, <<FileB, FileZ>>}, force \in BOOLEAN :
        \E left \in [1..Len(mf) -> LeftKinds] :
            InitRun([connections |-> Connections, pipeline_size |-> PipelineSize,
                     connection_wait_timeout |-> ConnectionWaitTimeout,
                     force_redownload |-> force,
                     username |-> UserName, password |-> Password],
                    mf,
                    IF mf = <<>> THEN [p \in {Filename(FileB)} |-> Absent]
                    ELSE [p \in {Filename(mf[i]) : i \in 1..Len(mf)} |->
                            Left(mf[CHOOSE i \in 1..Len(mf) : Filename(mf[i]) = p],
                                 left[CHOOSE i \in 1..Len(mf) : Filename(mf[i]) = p])])

SpecNzb == InitNzb /\ [][NextNzb]_vars

\* The resume check alone: the first poll of one file's future, and the
\* return when that ended the run.
NextResume == (\E f \in FileIds : StartFile(f)) \/ Return

\* Where the single non-zero byte of a file on disk is (0: nowhere): at the
\* first and last position of each sample window of FileK and next to them.
MarkAt ==
    {0, 1, 2, 1023, 1024, 1025, 1026, 1499, 1500, 1501, 1502, 1975, 1976, 1977,
     2047, 2048, 2523, 2524, 2525, 2526, 2999, 3000}

Marked(n, p) == [exists |-> TRUE, data |-> [i \in 1..n |-> IF i = p THEN 1 ELSE 0]]

\* One file, small or large, over a directory that holds nothing, or a file
\* of the declared size or one byte short with at most one non-zero byte.
InitResume ==
    /\ late = FALSE
    /\ harness = HarnessOff
    /\ \E mf \in {FileB, FileK}, force \in BOOLEAN :
        \E left \in {Absent} \cup {Marked(n, p) : n \in {SumBytes(mf.segs, Len(mf.segs)),
                                                       SumBytes(mf.segs, Len(mf.segs)) - 1},
                                                 p \in MarkAt} :
            InitRun([connections |-> Connections, pipeline_size |-> PipelineSize,
                     connection_wait_timeout |-> ConnectionWaitTimeout,
                     force_redownload |-> force,
                     username |-> UserName, password |-> Password],
                    <<mf>>, [p \in {Filename(mf)} |-> left])

SpecResume == InitResume /\ [][NextResume]_vars

\* What a server may send as its greeting: accepted ones, a refusal, an
\* empty line.
GreetingLines ==
    {S200, S201, S200 \o <<32, 104, 105>>, S502 \o <<32, 120>>, <<>>}

\* What may follow the code in an answer to AUTHINFO: nothing, a text, the
\* username or the password after a space, the password right after the code.
Tails == {<<>>, <<32, 111, 107>>, <<32>> \o UserName, <<32>> \o Password, Password}

UserReplies == {c \o t : c \in {S281, S381, S481}, t \in Tails} \cup {<<>>}
PassReplies == {c \o t : c \in {S281, S481}, t \in Tails} \cup {<<>>}

\* The servers connect may meet: unreachable, or sending the first k of
\* greeting, answer to USER and answer to PASS, ended CRLF or LF, with the
\* stream then open, closed or reset, and one send_command failing or none;
\* endings are the line endings it may use.
Handshakes(endings) ==
    {[tcp |-> t, lines |-> <<>>, fin |-> "open", wfail |-> 0] : t \in {"refused", "timeout"}}
    \cup
    UNION {{[tcp |-> "ok", lines |-> SubSeq(<<g \o e, u \o e, p \o e>>, 1, k),
             fin |-> fin, wfail |-> w] :
                g \in GreetingLines, u \in UserReplies, p \in PassReplies} :
           <<e, k, fin, w>> \in endings \X (0..3) \X Fins \X (0..2)}

\* Manager::create called for a batch task, against any server, with the
\* password the server knows or another.
InitAuth ==
    /\ late = FALSE
    /\ \E pw \in {Password, WrongPassword} :
        config = [connections |-> Connections, pipeline_size |-> ConnPipelineSize,
                  connection_wait_timeout |-> ConnectionWaitTimeout,
                  force_redownload |-> FALSE,
                  username |-> UserName, password |-> pw]
    /\ manifest = <<FileA>>
    /\ disk = (Filename(FileA) :> Absent)
    /\ next_file = 2
    /\ fpc = <<"running">>
    /\ stats = <<NewStats>>
    /\ bt = <<<<[NewBatch EXCEPT !.pc = "creating"]>>>>
    /\ idle = <<>>
    /\ body_cmds = [m \in MessageIds |-> 0]
    /\ results = <<>>
    /\ returned = [done |-> FALSE, value |-> <<>>, err |-> ""]
    /\ \E hs \in Handshakes({CRLF, EOL}) : harness = [phase |-> "connecting", hs |-> hs]

SpecAuth == InitAuth /\ [][NextAuth]_vars

\* Twenty-one files of one segment each.
ManyIds == <<"m1", "m2", "m3", "m4", "m5", "m6", "m7", "m8", "m9", "m10", "m11", "m12", "m13", "m14", "m15", "m16", "m17", "m18", "m19", "m20", "m21">>

ManyFiles ==
    [i \in 1..Len(ManyIds) |->
        [quoted |-> "", date |-> i, group |-> "g", segs |-> <<Seg(1, 1, ManyIds[i])>>]]

\* handle_download_mode has loaded an NZB of no, one, two or twenty-one
\* files; JSON output is on or off; server lines arrive in time or may
\* arrive late.
InitAvail ==
    /\ late \in BOOLEAN
    /\ \E mf \in {<<>>, <<FileB>>, <<FileB, FileA2>>, ManyFiles}, json \in BOOLEAN :
        /\ harness = [phase |-> "nzb", json |-> json]
        /\ InitRun([connections |-> Connections, pipeline_size |-> PipelineSize,
                    connection_wait_timeout |-> ConnectionWaitTimeout,
                    force_redownload |-> FALSE,
                    username |-> UserName, password |-> Password],
                   mf, [p \in {Filename(mf[i]) : i \in 1..Len(mf)} |-> Absent])

SpecAvail == InitAvail /\ [][NextAvail]_vars

\* Lines a connection may hold unread when a call starts: none, or what a
\* server sent too late for an earlier call: a status line, or a whole
\* article.
StaleLines == {<<>>, <<Line(S500)>>, <<Line(S430)>>, BodyReply("222", "a1")}

\* A batch of one request (FileB) about to be fetched on a connection that
\* is new or has served the group before, with or without unread lines.
InitOne ==
    /\ late \in BOOLEAN
    /\ \E grp \in {"", "g"}, stale \in StaleLines :
        harness = [phase |-> "one",
                   conn |-> [group |-> grp, wire |-> IF late THEN stale ELSE <<>>,
                             fin |-> "open"]]
    /\ InitRun([connections |-> Connections, pipeline_size |-> PipelineSize,
                connection_wait_timeout |-> ConnectionWaitTimeout,
                force_redownload |-> FALSE,
                username |-> UserName, password |-> Password],
               <<FileB>>, [p \in {Filename(FileB)} |-> Preallocated(FileB)])

SpecOne == InitOne /\ [][NextOne]_vars

\* The lines of the decoder's own tests: byte i of the plain text is
\* (i % 200) + 32, moved on by one where it would encode to '=' or CR, and
\* the line is the plain text plus 42.
TestPlain(i) ==
    LET b == (i % 200) + 32
    IN  IF (b + 42) % 256 = 61 \/ (b + 42) % 256 = 13 THEN b + 1 ELSE b

TestEncoded(i) == (TestPlain(i) + 42) % 256

MaxLineLen == 33

\* Bytes placed at one position of a test line: the ends of the byte
\* range, both sides of 42, and '=', CR, LF with their neighbours.
ProbeBytes == {0, 10, 12, 13, 14, 41, 42, 43, 60, 61, 62, 255}

\* Buffers a line is appended to.
PriorOutputs == {<<>>, <<7>>, <<61, 13, 0>>}

MaxShortLen == 3

\* '=', CR, and two bytes that are neither.
EscapeBytes == {61, 13, 42, 255}

\* Every line of up to n of those bytes: escapes of '=' and of CR, runs of
\* '=', an '=' as the last byte.
ShortLines(n) == UNION {[1..k -> EscapeBytes] : k \in 0..n}

\* A line of 0..MaxLineLen bytes, a test line with one byte replaced, or a
\* short line of escapes, about to be decoded onto a buffer.
InitLine ==
    /\ late = FALSE
    /\ \E out \in PriorOutputs :
        \/ \E len \in 0..MaxLineLen :
            \E j \in (IF len = 0 THEN {0} ELSE 1..len), b \in ProbeBytes :
                harness = [phase |-> "line", out |-> out,
                           line |-> [i \in 1..len |-> IF i = j THEN b ELSE TestEncoded(i - 1)]]
        \/ \E line \in ShortLines(MaxShortLen) :
            harness = [phase |-> "line", out |-> out, line |-> line]
    /\ InitRun([connections |-> Connections, pipeline_size |-> PipelineSize,
                connection_wait_timeout |-> ConnectionWaitTimeout,
                force_redownload |-> FALSE,
                username |-> UserName, password |-> Password],
               <<FileB>>, [p \in {Filename(FileB)} |-> Absent])

SpecLine == InitLine /\ [][NextLine]_vars

MaxDataLen == 3

\* Plain bytes: '=', CR and LF themselves (0x3D, 0x0D, 0x0A), the bytes
\* that encode to them (0x13, 0xE3, 0xE0), and the ends of the byte range.
PlainBytes == {0, 1, 255, 61, 13, 10, 19, 227, 224}

LineWidths == {1, 2, 16, 128}

\* Data to post: every sequence of up to MaxDataLen plain bytes in lines of
\* every width, and the test suite's plain text of 17 and 33 bytes with one
\* byte replaced in lines of 16 and of 128 bytes.
InitYenc ==
    /\ late = FALSE
    /\ \E eol \in {CRLF, EOL} :
        \/ \E width \in LineWidths, len \in 0..MaxDataLen :
            \E data \in [1..len -> PlainBytes] :
                harness = [phase |-> "plain", data |-> data, width |-> width, eol |-> eol]
        \/ \E width \in {16, 128}, len \in {17, 33} : \E j \in 1..len, b \in PlainBytes :
            harness = [phase |-> "plain", width |-> width, eol |-> eol,
                       data |-> [i \in 1..len |-> IF i = j THEN b ELSE TestPlain(i - 1)]]
    /\ InitRun([connections |-> Connections, pipeline_size |-> PipelineSize,
                connection_wait_timeout |-> ConnectionWaitTimeout,
                force_redownload |-> FALSE,
                username |-> UserName, password |-> Password],
               <<FileB>>, [p \in {Filename(FileB)} |-> Absent])

SpecYenc == InitYenc /\ [][NextYenc]_vars

\* Data lines a server may send for the two-byte article b1: none, its
\* encoding, its encoding with the second byte escaped, and lines that end
\* in '=' with nothing after it.
DataTexts == {<<>>, Encode(ArticleData("b1")), <<45, 61, 110>>,
              <<61>>, <<45, 61>>, <<45, 46, 61>>, <<45, 61, 110, 61>>}

Articles == [begin : BOOLEAN, line : DataTexts, end : BOOLEAN, dot : BOOLEAN]

\* The batch task of FileB holds a connection, new or with the group
\* selected; the server has some article under b1.
InitBody ==
    /\ late \in BOOLEAN
    /\ config = [connections |-> Connections, pipeline_size |-> PipelineSize,
                 connection_wait_timeout |-> ConnectionWaitTimeout,
                 force_redownload |-> FALSE,
                 username |-> UserName, password |-> Password]
    /\ manifest = <<FileB>>
    /\ disk = (Filename(FileB) :> Preallocated(FileB))
    /\ next_file = 2
    /\ fpc = <<"running">>
    /\ stats = <<NewStats>>
    /\ bt = <<<<[NewBatch EXCEPT !.pc = "leased"]>>>>
    /\ idle = <<>>
    /\ body_cmds = [m \in MessageIds |-> 0]
    /\ results = <<>>
    /\ returned = [done |-> FALSE, value |-> <<>>, err |-> ""]
    /\ \E conn \in {NewConnection, [NewConnection EXCEPT !.group = FileB.group]},
          body \in Articles :
        harness = [phase |-> "article", conn |-> conn, body |-> body]

SpecBody == InitBody /\ [][NextBody]_vars

\* What a run leaves of a file when only the segments in `written` were
\* written: the pre-allocated zeros with those segments at their offsets.
RECURSIVE WrittenFrom(_, _, _, _)
WrittenFrom(file, written, k, data) ==
    IF k > Len(file.segs) THEN data
    ELSE WrittenFrom(file, written, k + 1,
                     IF k \in written
                     THEN WriteAt(data, SumBytes(file.segs, k - 1),
                                  ArticleData(file.segs[k].message_id))
                     ELSE data)

WrittenOnly(file, written) ==
    [exists |-> TRUE,
     data |-> WrittenFrom(file, written, 1, Zeros(SumBytes(file.segs, Len(file.segs))))]

\* A second run, with force_redownload = false, over what a first run left
\* of FileB and FileA2: nothing or all of FileB, and of FileA2 nothing, or
\* the pre-allocated file with any of its segments written.
InitRerun ==
    /\ late = FALSE
    /\ harness = HarnessOff
    /\ \E left_b \in {Absent, Complete(FileB)} :
        \E left_a \in {Absent} \cup {WrittenOnly(FileA2, written) :
                                        written \in SUBSET (1..Len(FileA2.segs))} :
            InitRun([connections |-> Connections, pipeline_size |-> PipelineSize,
                     connection_wait_timeout |-> ConnectionWaitTimeout,
                     force_redownload |-> FALSE,
                     username |-> UserName, password |-> Password],
                    <<FileB, FileA2>>,
                    (Filename(FileB) :> left_b) @@ (Filename(FileA2) :> left_a))

SpecRerun == InitRerun /\ [][Next]_vars

\* An older file of other content and another length.
OldFile == [exists |-> TRUE, data |-> <<9, 9, 9, 9, 9, 9, 9>>]

\* download_nzb on a file and FileB where the file's path holds left.
FetchRun(file, force, left) ==
    InitRun([connections |-> Connections, pipeline_size |-> PipelineSize,
             connection_wait_timeout |-> ConnectionWaitTimeout,
             force_redownload |-> force,
             username |-> UserName, password |-> Password],
            <<file, FileB>>,
            (Filename(file) :> left) @@ (Filename(FileB) :> Absent))

\* FileC2's path holds nothing, or an older file that force_redownload
\* replaces or that is resumed.
InitFetch ==
    /\ late = FALSE
    /\ harness = HarnessOff
    /\ \/ FetchRun(FileC2, FALSE, Absent)
       \/ FetchRun(FileC2, TRUE, OldFile)
       \/ FetchRun(FileC2, FALSE, OldFile)

SpecFetch == InitFetch /\ [][Next]_vars

\* The batch task of FileA2 (one batch of two requests) calls
\* download_segments_pipelined on a connection that is new or has the group
\* selected, against every server of Scripts.
InitPipe ==
    /\ late = FALSE
    /\ config = [connections |-> Connections, pipeline_size |-> ConnPipelineSize,
                 connection_wait_timeout |-> ConnectionWaitTimeout,
                 force_redownload |-> FALSE,
                 username |-> UserName, password |-> Password]
    /\ manifest = <<FileA2>>
    /\ disk = (Filename(FileA2) :> Preallocated(FileA2))
    /\ next_file = 2
    /\ fpc = <<"running">>
    /\ stats = <<NewStats>>
    /\ bt = <<<<[NewBatch EXCEPT !.pc = "leased"]>>>>
    /\ idle = <<>>
    /\ body_cmds = [m \in MessageIds |-> 0]
    /\ results = <<>>
    /\ returned = [done |-> FALSE, value |-> <<>>, err |-> ""]
    /\ \E conn \in {NewConnection, [NewConnection EXCEPT !.group = FileA2.group]} :
        \E script \in Scripts(conn, BatchRequests(1, 1)) :
            harness = CallStart(conn, BatchRequests(1, 1), script)

SpecPipe == InitPipe /\ [][NextPipe]_vars

\* A new connection about to serve calls for files of two groups, against
\* a server whose answers arrive in time or late.
InitGroup ==
    /\ late \in BOOLEAN
    /\ harness = [phase |-> "conn", conn |-> NewConnection, calls |-> 0, acked |-> "",
                  last |-> [ret |-> ""]]
    /\ InitRun([connections |-> Connections, pipeline_size |-> PipelineSize,
                connection_wait_timeout |-> ConnectionWaitTimeout,
                force_redownload |-> FALSE,
                username |-> UserName, password |-> Password],
               <<FileB, FileH>>,
               (Filename(FileB) :> Preallocated(FileB)) @@ (Filename(FileH) :> Preallocated(FileH)))

SpecGroup == InitGroup /\ [][NextGroup]_vars

\* A run over FileB and the three-segment FileA with batches of two
\* segments: FileA has one full batch and a shorter last one.
BatchPipelineSize == 2

InitBatch ==
    /\ late = FALSE
    /\ harness = HarnessOff
    /\ InitRun([connections |-> Connections, pipeline_size |-> BatchPipelineSize,
                connection_wait_timeout |-> ConnectionWaitTimeout,
                force_redownload |-> FALSE,
                username |-> UserName, password |-> Password],
               <<FileB, FileA>>,
               (Filename(FileB) :> Absent) @@ (Filename(FileA) :> Absent))

SpecBatch == InitBatch /\ [][Next]_vars

\* Pool sizes on both sides of where connections / 5 passes 2.
ConnectionCounts == {1, 10, 14, 15}

\* A run over four files, listed in the manifest in another order than by
\* segment count, each absent or complete on disk.
InitFiles ==
    /\ late = FALSE
    /\ harness = HarnessOff
    /\ \E c \in ConnectionCounts, left \in [1..4 -> {"absent", "complete"}] :
        LET mf == <<FileB, FileA2, FileZ, FileC>>
        IN  InitRun([connections |-> c, pipeline_size |-> PipelineSize,
                     connection_wait_timeout |-> ConnectionWaitTimeout,
                     force_redownload |-> FALSE,
                     username |-> UserName, password |-> Password],
                    mf,
                    [p \in {Filename(mf[i]) : i \in 1..4} |->
                        Left(mf[CHOOSE i \in 1..4 : Filename(mf[i]) = p],
                             left[CHOOSE i \in 1..4 : Filename(mf[i]) = p])])

SpecFiles == InitFiles /\ [][NextFiles]_vars

\* A run with a lease budget of several seconds, so that a batch can retry
\* more than once before the budget is spent.
LeaseWaitTimeout == 5

InitLease ==
    /\ late = FALSE
    /\ harness = HarnessOff
    /\ InitRun([connections |-> Connections, pipeline_size |-> PipelineSize,
                connection_wait_timeout |-> LeaseWaitTimeout,
                force_redownload |-> FALSE,
                username |-> UserName, password |-> Password],
               <<FileB, FileZ>>,
               (Filename(FileB) :> Absent) @@ (Filename(FileZ) :> Absent))

SpecLease == InitLease /\ [][Next]_vars

\* ------------------------------------------------ writes on the shared handle
\* The batch tasks of file 1 after their pipelined calls returned Ok, each
\* with the pairs it got, writing through the one handle in the file mutex.
\* harness.holder is the batch that holds the mutex (0: free), harness.pos
\* the handle's position, harness.data the file, harness.tasks[b] the task
\* of batch b (i: the pair it is at), harness.wrote where each write began.

WriteTask(res) == [pc |-> "result", i |-> 1, results |-> res]

TaskPair(b) == harness.tasks[b].results[harness.tasks[b].i]

\* offset_map.get(&seg_num) of the pair task b is at (0: not in the map).
TaskOffsetIndex(b) == OffsetIndex(1, b, TaskPair(b)[1])

TaskOffset(b) == segment_offset(1, BatchSegs(1, b)[TaskOffsetIndex(b)])

AtPair(b) ==
    /\ harness.phase = "write"
    /\ b \in DOMAIN harness.tasks
    /\ harness.tasks[b].i <= Len(harness.tasks[b].results)

NextPair(b) == [harness.tasks[b] EXCEPT !.pc = "result", !.i = @ + 1]

\* A pair without data, or whose number is not in offset_map: nothing is
\* done with the file.
HSkip(b) ==
    /\ AtPair(b)
    /\ harness.tasks[b].pc = "result"
    /\ ~TaskPair(b)[2].some \/ TaskOffsetIndex(b) = 0
    /\ harness' = [harness EXCEPT !.tasks[b] = NextPair(b)]
    /\ UNCHANGED <<config, manifest, late, disk, next_file, fpc, stats, bt, idle, body_cmds,
                   results, returned>>

\* A lock that is granted while another task holds the mutex.
HLockFile_m(b) ==
    /\ AtPair(b)
    /\ harness.tasks[b].pc = "result"
    /\ TaskPair(b)[2].some /\ TaskOffsetIndex(b) # 0
    /\ harness' = [harness EXCEPT !.holder = b, !.tasks[b].pc = "locked"]
    /\ UNCHANGED <<config, manifest, late, disk, next_file, fpc, stats, bt, idle, body_cmds,
                   results, returned>>

\* shared_file.lock().await: granted when no task holds the mutex.
HLockFile(b) ==
    /\ AtPair(b)
    /\ harness.tasks[b].pc = "result"
    /\ TaskPair(b)[2].some /\ TaskOffsetIndex(b) # 0
    /\ harness.holder = 0
    /\ harness' = [harness EXCEPT !.holder = b, !.tasks[b].pc = "locked"]
    /\ UNCHANGED <<config, manifest, late, disk, next_file, fpc, stats, bt, idle, body_cmds,
                   results, returned>>

\* file.seek(SeekFrom::Start(file_offset)): on an error the pair is done
\* and the guard is dropped.
HSeek(b) ==
    /\ AtPair(b)
    /\ harness.tasks[b].pc = "locked"
    /\ \/ harness' = [harness EXCEPT !.pos = TaskOffset(b), !.tasks[b].pc = "seeked"]
       \/ harness' = [harness EXCEPT !.holder = 0, !.tasks[b] = NextPair(b)]
    /\ UNCHANGED <<config, manifest, late, disk, next_file, fpc, stats, bt, idle, body_cmds,
                   results, returned>>

\* file.write_all(&bytes) at the handle's position; then the pair is done
\* and the guard is dropped.
HWriteAll(b) ==
    /\ AtPair(b)
    /\ harness.tasks[b].pc = "seeked"
    /\ \/ harness' = [harness EXCEPT
                         !.data = WriteAt(@, harness.pos, TaskPair(b)[2].bytes),
                         !.pos = @ + Len(TaskPair(b)[2].bytes),
                         !.wrote = @ \cup {[batch |-> b, seg_num |-> TaskPair(b)[1],
                                            at |-> harness.pos]},
                         !.holder = 0, !.tasks[b] = NextPair(b)]
       \/ harness' = [harness EXCEPT !.holder = 0, !.tasks[b] = NextPair(b)]
    /\ UNCHANGED <<config, manifest, late, disk, next_file, fpc, stats, bt, idle, body_cmds,
                   results, returned>>

NextWrite ==
    \E b \in 1..NumBatches(1) : HSkip(b) \/ HLockFile(b) \/ HSeek(b) \/ HWriteAll(b)

\* What a batch's pipelined call can return in its Ok arm.
OkResults(b) ==
    LET conn == [NewConnection EXCEPT !.group = manifest[1].group]
    IN  {download_segments_pipelined(conn, BatchRequests(1, b), script).results :
            script \in {s \in Scripts(conn, BatchRequests(1, b)) :
                download_segments_pipelined(conn, BatchRequests(1, b), s).ret = "Ok"}}

WritePipelineSizes == {1, 2}

InitWrite ==
    /\ late = FALSE
    /\ \E p \in WritePipelineSizes :
        config = [connections |-> Connections, pipeline_size |-> p,
                  connection_wait_timeout |-> ConnectionWaitTimeout,
                  force_redownload |-> FALSE,
                  username |-> UserName, password |-> Password]
    /\ manifest = <<FileA>>
    /\ disk = (Filename(FileA) :> Preallocated(FileA))
    /\ next_file = 2
    /\ fpc = <<"running">>
    /\ stats = <<NewStats>>
    /\ bt = <<[b \in 1..NumBatches(1) |-> [NewBatch EXCEPT !.pc = "leased"]]>>
    /\ idle = <<>>
    /\ body_cmds = [m \in MessageIds |-> 0]
    /\ results = <<>>
    /\ returned = [done |-> FALSE, value |-> <<>>, err |-> ""]
    /\ \E res \in [1..NumBatches(1) -> UNION {OkResults(b) : b \in 1..NumBatches(1)}] :
        /\ \A b \in 1..NumBatches(1) : res[b] \in OkResults(b)
        /\ harness = [phase |-> "write", holder |-> 0, pos |-> 0,
                      data |-> Preallocated(FileA).data,
                      tasks |-> [b \in 1..NumBatches(1) |-> WriteTask(res[b])],
                      wrote |-> {}]

SpecWrite == InitWrite /\ [][NextWrite]_vars

\* ------------------------------------------------ article bodies
\* harness.src is what the server sends after a 222 line, each line as its
\* text and its ending; harness.rd the reader holding those lines, all
\* arrived, before a stream that stays open, closes or fails.

MaxBodyLines == 3

\* "", ".", "..", "...", ".a", "a" and ".\r"
BodyTexts == {<<>>, <<46>>, <<46, 46>>, <<46, 46, 46>>, <<46, 97>>, <<97>>, <<46, 13>>}

\* A text that ends in CR before a bare LF is the shorter text before CRLF.
BodyLines ==
    {l \in [text : BodyTexts, eol : {CRLF, EOL}] :
        ~(l.eol = EOL /\ EndsWith(l.text, <<13>>))}

BodySources(n) == UNION {[1..k -> BodyLines] : k \in 0..n}

WireOf(src) == [i \in 1..Len(src) |-> src[i].text \o src[i].eol]

\* read_article_body on the reader.
HReadBody ==
    /\ harness.phase = "body"
    /\ harness' = [phase |-> "read", src |-> harness.src, rd |-> harness.rd,
                   r |-> read_article_body(harness.rd)]
    /\ UNCHANGED <<config, manifest, late, disk, next_file, fpc, stats, bt, idle, body_cmds,
                   results, returned>>

NextArticle == HReadBody

InitArticle ==
    /\ late = FALSE
    /\ InitRun([connections |-> Connections, pipeline_size |-> PipelineSize,
                connection_wait_timeout |-> ConnectionWaitTimeout,
                force_redownload |-> FALSE,
                username |-> UserName, password |-> Password],
               <<FileB>>, (Filename(FileB) :> Absent))
    /\ \E src \in BodySources(MaxBodyLines), fin \in Fins :
        harness = [phase |-> "body", src |-> src,
                   rd |-> [wire |-> WireOf(src), n |-> Len(src), fin |-> fin]]

SpecArticle == InitArticle /\ [][NextArticle]_vars

\* ------------------------------------------------------------ properties

\* The status code of a reply ("" when the server sent none).
ReplyCode(reply) ==
    IF reply = <<>> THEN ""
    ELSE CASE StartsWith(reply[1], S222) -> "222"
           [] StartsWith(reply[1], S430) -> "430"
           [] StartsWith(reply[1], S423) -> "423"
           [] OTHER -> "other"

Accounted(r) == r.segments_downloaded + r.segments_failed = NumSegs(r.file)

\* C1: every DownloadResult a file's download yields, and so every one that
\* download_nzb returns, whether the file was resumed or fetched, has
\* segments_downloaded + segments_failed equal to the number of segments of
\* its manifest file, whatever the batches' outcomes were.
C1_SegmentsAccounted ==
    /\ \A i \in 1..Len(results) : results[i].ok => Accounted(results[i].value)
    /\ \A i \in 1..Len(returned.value) : Accounted(returned.value[i])

\* A resumed file and a fetched file are returned, the fetched one with a
\* segment that failed on a seek or write error (failed, no id recorded).
C1_Witness ==
    /\ returned.done
    /\ \E i, j \in 1..Len(returned.value) :
        /\ returned.value[i].file = 1
        /\ stats[1] = NewStats
        /\ returned.value[i].segments_downloaded = NumSegs(1)
        /\ returned.value[j].file = 2
        /\ returned.value[j].segments_failed >= 1
        /\ \A m \in MessageIds : returned.value[j].failed_message_ids[m] = 0

C3_OneResultPerFile ==
    returned.done =>
        \A f \in FileIds :
            Cardinality({i \in 1..Len(returned.value) : returned.value[i].file = f}) = 1

\* C4 as stated: when the pipelined call returns Ok, the i-th result carries
\* the i-th request's segment number, and Some(bytes) only when the server
\* answered the i-th BODY with 222, the bytes being that article's.
C4_OwnResponse ==
    (harness.phase \in {"returned", "recycled"} /\ harness.r.ret = "Ok") =>
        \A i \in 1..Len(harness.r.results) :
            /\ harness.r.results[i][1] = BatchRequests(1, 1)[i].segment_number
            /\ harness.r.results[i][2].some =>
                /\ ReplyCode(harness.script.replies[i]) = "222"
                /\ harness.r.results[i][2].bytes
                       = ArticleData(BatchRequests(1, 1)[i].message_id)

\* C5 as stated: a connection handed out by get_connection has no unread
\* line of an earlier request pending.
C5_NoUnreadBytes ==
    \A fb \in AllBatches :
        bt[fb[1]][fb[2]].pc = "leased" => bt[fb[1]][fb[2]].conn.wire = <<>>

NumSome(rs) == Cardinality({i \in 1..Len(rs) : rs[i][2].some})

KnownCodes ==
    /\ harness.conn.group = FileA.group \/ harness.script.grp = <<S211 \o CRLF>>
    /\ \A i \in 1..Len(harness.script.replies) :
        ReplyCode(harness.script.replies[i]) \in {"222", "430", "423"}

Missing == {i \in 1..Len(harness.script.replies) :
               ReplyCode(harness.script.replies[i]) \in {"430", "423"}}

\* C7: when every BODY of a batch is answered with the article or with 430
\* or 423, the call returns Ok; a 430 or 423 gives None for its own request
\* and every 222 gives that request's article (no line of a following
\* response is taken for the 430's); the None segments are counted failed
\* with their ids recorded; the connection has no unread line left, and with
\* the server still there it passes the health check and stays in use.
C7_MissingArticle ==
    (harness.phase \in {"returned", "recycled"} /\ KnownCodes) =>
        /\ harness.r.ret = "Ok"
        /\ Len(harness.r.results) = Len(BatchRequests(1, 1))
        /\ \A i \in 1..Len(harness.r.results) :
            /\ harness.r.results[i][1] = BatchRequests(1, 1)[i].segment_number
            /\ harness.r.results[i][2] =
                   IF i \in Missing THEN NoData
                   ELSE SomeData(ArticleData(BatchRequests(1, 1)[i].message_id))
            /\ stats[1].failed_message_ids[BatchRequests(1, 1)[i].message_id]
                   = IF i \in Missing THEN 1 ELSE 0
        /\ stats[1].segments_failed >= Cardinality(Missing)
        /\ stats[1].segments_downloaded + stats[1].segments_failed = NumSegs(1)
        /\ harness.r.conn.wire = <<>>
        /\ (/\ harness.phase = "recycled"
            /\ harness.script.fin = "open"
            /\ harness.noop = <<S200 \o CRLF>>) =>
                /\ harness.healthy
                /\ harness.conn = harness.r.conn

\* 430, then an article, then 423: the article is delivered and the
\* connection passes the health check.
C7_Witness ==
    /\ harness.phase = "recycled"
    /\ KnownCodes
    /\ ReplyCode(harness.script.replies[1]) = "430"
    /\ ReplyCode(harness.script.replies[2]) = "222"
    /\ ReplyCode(harness.script.replies[3]) = "423"
    /\ harness.r.results[2][2] = SomeData(ArticleData("a2"))
    /\ stats[1].segments_failed = 2
    /\ harness.healthy

BatchIds(f, b) == {BatchRequests(f, b)[i].message_id : i \in 1..Len(BatchRequests(f, b))}

\* C8: when a batch gives up leasing, that step counts exactly the batch's
\* segments failed and records exactly their ids, sends nothing, ends no
\* file and touches no other task; no BODY is ever sent for those segments.
C8_LeaseFailure ==
    /\ [](\A fb \in AllBatches :
            bt[fb[1]][fb[2]].ret = "NoLease" =>
                \A m \in BatchIds(fb[1], fb[2]) :
                    body_cmds[m] = 0 /\ stats[fb[1]].failed_message_ids[m] = 1)
    /\ [][\A fb \in AllBatches :
            (bt[fb[1]][fb[2]].pc = "lease" /\ bt'[fb[1]][fb[2]].pc = "done") =>
                /\ bt'[fb[1]][fb[2]].ret = "NoLease"
                /\ stats'[fb[1]].segments_failed
                       = stats[fb[1]].segments_failed + Len(BatchSegs(fb[1], fb[2]))
                /\ stats'[fb[1]].segments_downloaded = stats[fb[1]].segments_downloaded
                /\ \A m \in MessageIds :
                       stats'[fb[1]].failed_message_ids[m]
                           = stats[fb[1]].failed_message_ids[m]
                             + (IF m \in BatchIds(fb[1], fb[2]) THEN 1 ELSE 0)
                /\ \A g \in FileIds \ {fb[1]} : stats'[g] = stats[g]
                /\ \A gc \in AllBatches \ {fb} : bt'[gc[1]][gc[2]] = bt[gc[1]][gc[2]]
                /\ UNCHANGED <<body_cmds, idle, disk, fpc, results>>
         ]_vars

\* A file one of whose batches got no connection has another batch that was
\* served, and has yielded its result.
C8_Witness ==
    \E f \in FileIds :
        /\ \E b, c \in 1..NumBatches(f) :
            bt[f][b].ret = "NoLease" /\ bt[f][c].ret = "Ok"
        /\ \E i \in 1..Len(results) :
            /\ results[i].ok
            /\ results[i].file = f
            /\ results[i].value.segments_downloaded >= 1
            /\ results[i].value.segments_failed >= 1

LiveConnections ==
    Len(idle) + Cardinality({fb \in AllBatches :
                                bt[fb[1]][fb[2]].pc \in {"creating", "leased"}})

AllLeased ==
    Cardinality({fb \in AllBatches : bt[fb[1]][fb[2]].pc = "leased"}) = config.connections

\* C9: the connections that are idle, leased or being created never number
\* more than config.connections; a get_connection waiting while that many
\* are leased goes on waiting or fails, and creates nothing.
C9_PoolBound ==
    /\ [](LiveConnections <= config.connections)
    /\ [][\A fb \in AllBatches :
            (bt[fb[1]][fb[2]].pc = "wait" /\ AllLeased) =>
                /\ bt'[fb[1]][fb[2]].pc \in {"wait", "lease"}
                /\ bt'[fb[1]][fb[2]].conn = NoConn
                /\ bt'[fb[1]][fb[2]].pc = "lease" =>
                       bt'[fb[1]][fb[2]].attempt = bt[fb[1]][fb[2]].attempt + 1
         ]_vars

\* With every connection leased, a get_connection has failed on the wait
\* timeout.
C9_Witness ==
    /\ AllLeased
    /\ LiveConnections = config.connections
    /\ \E fb \in AllBatches :
        /\ bt[fb[1]][fb[2]].pc = "lease"
        /\ bt[fb[1]][fb[2]].attempt = 1
        /\ bt[fb[1]][fb[2]].elapsed = max_wait

\* C10: with one connection and two files, under the runtime's scheduling,
\* download_nzb returns, every file's download having ended, and returns
\* the result of every file whose download returned Ok.
C10_Terminates ==
    <>(/\ returned.done
       /\ \A f \in FileIds : fpc[f] = "done"
       /\ \A i \in 1..Len(results) :
            results[i].ok =>
                \E j \in 1..Len(returned.value) : returned.value[j] = results[i].value)

\* Both files fetched completely over the one connection.
C10_Witness ==
    /\ config.connections = 1
    /\ returned.done
    /\ Len(returned.value) = Len(manifest)
    /\ \A i \in 1..Len(returned.value) :
        /\ returned.value[i].segments_failed = 0
        /\ body_cmds[manifest[returned.value[i].file].segs[1].message_id] = 1

\* The position in file f's segment list of the segment numbered num.
SegIndex(f, num) == CHOOSE k \in 1..NumSegs(f) : manifest[f].segs[k].number = num

\* The declared bytes of the segments before the k-th, counted one by one.
UnitsBefore(f, k) ==
    Cardinality({ju \in (1..(k - 1)) \X (1..expected_size(f)) :
                    ju[2] <= manifest[f].segs[ju[1]].bytes})

\* The pipelined call returned Ok and every Some result was written.
AllWritten ==
    /\ harness.phase \in {"returned", "recycled"}
    /\ harness.r.ret = "Ok"
    /\ stats[1].segments_downloaded = NumSome(harness.r.results)

\* The file after the results from the i-th on are written, each at the sum
\* of the declared sizes of the segments before its own.
RECURSIVE Replay(_, _, _)
Replay(res, i, data) ==
    IF i > Len(res) THEN data
    ELSE Replay(res, i + 1,
                IF res[i][2].some
                THEN WriteAt(data, UnitsBefore(1, SegIndex(1, res[i][1])), res[i][2].bytes)
                ELSE data)

C12_Disjoint ==
    AllWritten =>
        \A i, j \in 1..Len(harness.r.results) :
            (i < j /\ harness.r.results[i][2].some /\ harness.r.results[j][2].some) =>
                LET oi == segment_offset(1, SegIndex(1, harness.r.results[i][1]))
                    oj == segment_offset(1, SegIndex(1, harness.r.results[j][1]))
                IN  \/ oi + Len(harness.r.results[i][2].bytes) <= oj
                    \/ oj + Len(harness.r.results[j][2].bytes) <= oi

\* C13 as stated: from pre-allocation on, the output file's size is the sum
\* of the declared sizes of its segments.
C13_FileSize ==
    Len(disk[OutputPath(1)].data) = expected_size(1)

\* The positions of a file of n bytes that the resume check reads.
Windows(n) ==
    IF n < 1024 THEN 1..n
    ELSE (1..1024) \cup {i \in 1..n : i > n \div 2 /\ i <= n \div 2 + 1024}
                   \cup {i \in 1..n : i > n - 1024}

\* The file at f's path has the declared size and a non-zero byte where
\* the resume check reads, and resuming is allowed.
Resumable(f) ==
    /\ ~config.force_redownload
    /\ disk[OutputPath(f)].exists
    /\ Len(disk[OutputPath(f)].data) = SumBytes(manifest[f].segs, NumSegs(f))
    /\ \E i \in Windows(Len(disk[OutputPath(f)].data)) : disk[OutputPath(f)].data[i] # 0

\* The step in which file f's future is polled for the first time.
Polled(f) == fpc[f] = "pending" /\ fpc'[f] # "pending"

\* File f was skipped: its future is done without any batch task started.
Resumed(f) ==
    /\ fpc[f] = "done"
    /\ \A b \in 1..NumBatches(f) : bt[f][b] = NewBatch
    /\ \E i \in 1..Len(results) : results[i].ok /\ results[i].file = f

\* The step of a skipped file changes nothing but the stream of results.
SkipStep(f) ==
    /\ fpc'[f] = "done"
    /\ disk' = disk /\ bt' = bt /\ idle' = idle /\ body_cmds' = body_cmds /\ stats' = stats
    /\ Len(results') = Len(results) + 1
    /\ results'[Len(results')].ok
    /\ results'[Len(results')].value.file = f
    /\ results'[Len(results')].value.segments_downloaded = NumSegs(f)
    /\ results'[Len(results')].value.segments_failed = 0
    /\ \A m \in MessageIds : results'[Len(results')].value.failed_message_ids[m] = 0

\* C14 as stated: with force_redownload = false, a file that an earlier
\* run fetched completely is skipped: no connection leased, no BODY sent,
\* no output file modified, and its FileResult counts every segment ok.
C14_RerunNoOp ==
    [][\A f \in FileIds :
          (Polled(f) /\ ~config.force_redownload
                     /\ disk[OutputPath(f)] = Complete(manifest[f])) => SkipStep(f)]_vars

\* C14: with force_redownload = false, a file that is on disk with the
\* declared size and with a non-zero byte where the resume check reads is
\* skipped: at its step no connection is leased, no BODY command is sent,
\* no output file is modified and its FileResult has segments_ok = number of
\* segments and segments_failed = 0; and nothing is ever sent for it later.
C14_ResumeNoOp ==
    /\ [][\A f \in FileIds : (Polled(f) /\ Resumable(f)) => SkipStep(f)]_vars
    /\ [](\A f \in FileIds : Resumed(f) =>
            /\ stats[f] = NewStats
            /\ \A k \in 1..NumSegs(f) : body_cmds[manifest[f].segs[k].message_id] = 0)

\* A run over one complete file has returned: the file was skipped, no
\* connection exists, no BODY was sent and the file is as it was.
C14_Witness ==
    /\ returned.done /\ returned.err = ""
    /\ manifest = <<FileB>>
    /\ Resumed(1)
    /\ returned.value = <<SkipResult(1)>>
    /\ idle = <<>>
    /\ body_cmds["b1"] = 0
    /\ disk[OutputPath(1)] = Complete(FileB)

\* The step created file f anew: it holds expected_size zero bytes and the
\* future goes on to fetch, or creating it failed and the future is an Err.
Recreated(f) ==
    \/ /\ fpc'[f] = "running"
       /\ disk'[OutputPath(f)] = [exists |-> TRUE, data |-> Zeros(expected_size(f))]
       /\ results' = results
    \/ /\ fpc'[f] = "done"
       /\ Len(results') = Len(results) + 1
       /\ ~results'[Len(results')].ok

\* C15: a file's fetch is skipped exactly when force_redownload is false and
\* the file at the output path has the declared size and a non-zero byte in
\* what is sampled (the whole file below 1 KiB, else the 1 KiB windows at
\* offset 0, at the middle and at the end); in every other case, the all-zero
\* file of the right size and force_redownload = true among them, the file
\* is created anew and fetched.
C15_SkipOnlyIf ==
    [][\A f \in FileIds : Polled(f) =>
          /\ Resumable(f) => SkipStep(f)
          /\ ~Resumable(f) => Recreated(f)
          /\ (fpc'[f] = "done" /\ results'[Len(results')].ok) => Resumable(f)]_vars

\* The large file was skipped on the strength of one non-zero byte, the
\* last one of the middle window.
C15_Witness ==
    /\ manifest = <<FileK>>
    /\ Resumed(1)
    /\ disk[OutputPath(1)] = Marked(3000, 2524)

RECURSIVE SumCounts(_, _)
SumCounts(count, ids) ==
    IF ids = {} THEN 0
    ELSE LET m == CHOOSE x \in ids : TRUE
         IN  count[m] + SumCounts(count, ids \ {m})

\* C16: in every FileResult, failed_message_ids has one entry per segment
\* counted in segments_failed, each the id of a segment of that file,
\* whichever way the segment failed.
C16_FailedIds ==
    \A i \in 1..Len(results) : results[i].ok =>
        LET r == results[i].value
        IN  /\ SumCounts(r.failed_message_ids, MessageIds) = r.segments_failed
            /\ \A m \in MessageIds : r.failed_message_ids[m] > 0 =>
                   \E k \in 1..NumSegs(r.file) : manifest[r.file].segs[k].message_id = m

Read(hs, i) == i <= Len(hs.lines) \/ hs.fin = "eof"

LineRead(hs, i) == IF i <= Len(hs.lines) THEN StripEol(hs.lines[i]) ELSE <<>>

Answered(hs, i, code) == Read(hs, i) /\ StartsWith(LineRead(hs, i), code)

GreetingAccepted(hs) ==
    hs.tcp = "ok" /\ (Answered(hs, 1, S200) \/ Answered(hs, 1, S201))

UserSent(hs) == GreetingAccepted(hs) /\ hs.wfail # 1

PassSent(hs) == UserSent(hs) /\ Answered(hs, 2, S381) /\ hs.wfail # 2

\* C19: connect succeeds exactly when the greeting starts with 200 or 201
\* and AUTHINFO USER is answered 281, or answered 381 and AUTHINFO PASS is
\* answered 281; AUTHINFO PASS is sent only after a 381; after a rejected
\* greeting nothing is sent and the error is ProtocolError; an answer to
\* AUTHINFO that rejects gives AuthFailed; a failed handshake gives the
\* task no connection.
C19_Handshake ==
    harness.phase = "connected" =>
        LET hs == harness.hs
            r == harness.r
            rejectedUser == /\ UserSent(hs) /\ Read(hs, 2)
                            /\ ~StartsWith(LineRead(hs, 2), S281)
                            /\ ~StartsWith(LineRead(hs, 2), S381)
            rejectedPass == /\ PassSent(hs) /\ Read(hs, 3)
                            /\ ~StartsWith(LineRead(hs, 3), S281)
        IN  /\ r.ret = "Ok" <=> \/ UserSent(hs) /\ Answered(hs, 2, S281)
                                \/ PassSent(hs) /\ Answered(hs, 3, S281)
            /\ r.sent = (IF UserSent(hs) THEN <<AuthInfoUser \o config.username>> ELSE <<>>)
                        \o (IF PassSent(hs) THEN <<AuthInfoPass \o config.password>> ELSE <<>>)
            /\ (hs.tcp = "ok" /\ Read(hs, 1) /\ ~GreetingAccepted(hs)) =>
                    (r.ret = "ProtocolError" /\ r.sent = <<>>)
            /\ r.ret = "AuthFailed" <=> (rejectedUser \/ rejectedPass)
            /\ r.ret # "Ok" => (r.conn = NoConn /\ bt[1][1].conn = NoConn /\ bt[1][1].pc = "lease")
            /\ r.ret = "Ok" => (bt[1][1].pc = "leased" /\ bt[1][1].conn = r.conn)

\* connect succeeded after 381 and 281, both commands sent.
C19_Witness ==
    /\ harness.phase = "connected"
    /\ harness.r.ret = "Ok"
    /\ Len(harness.r.sent) = 2
    /\ bt[1][1].pc = "leased"

Contains(s, t) == \E i \in 0..(Len(s) - Len(t)) : SubSeq(s, i + 1, i + Len(t)) = t

IsDigits(s) == s # <<>> /\ \A i \in 1..Len(s) : s[i] \in 48..57

\* C20: the error of a failed handshake contains neither the username nor
\* the password, is the same whatever credentials are configured, and an
\* AuthFailed message holds the numeric response code only.
C20_NoCredentials ==
    (harness.phase = "connected" /\ harness.r.ret # "Ok") =>
        /\ ~Contains(harness.r.msg, config.username)
        /\ ~Contains(harness.r.msg, config.password)
        /\ \A pw \in {Password, WrongPassword} :
               connect([config EXCEPT !.password = pw], harness.hs).msg = harness.r.msg
        /\ harness.r.ret = "AuthFailed" =>
               /\ StartsWith(harness.r.msg, AuthenticationFailed)
               /\ EndsWith(harness.r.msg, CloseParen)
               /\ IsDigits(SubSeq(harness.r.msg, Len(AuthenticationFailed) + 1,
                                  Len(harness.r.msg) - 1))

\* Manager::create of task (f, b) ends in this step, and against this
\* server it can only have ended with AuthFailed.
AuthFailedAt(f, b) ==
    /\ bt[f][b].pc = "creating" /\ bt'[f][b].pc # "creating"
    /\ \A hs \in ServerHandshakes(config) : connect(config, hs).ret = "AuthFailed"

\* The task goes round the lease loop again.
Retried(f, b) == bt'[f][b].pc = "lease" /\ bt'[f][b].attempt = bt[f][b].attempt + 1

\* C17: an authentication failure is fatal for the run: the task that met
\* it does not try to lease again, and the run returns the error to its
\* caller.
C17_AuthFatal ==
    [][\A fb \in AllBatches :
          AuthFailedAt(fb[1], fb[2]) =>
              (~Retried(fb[1], fb[2]) /\ returned'.done /\ returned'.err = "AuthFailed")]_vars

\* The response the server sent to the i-th STAT, if it arrived before the
\* i-th read gave up ("" otherwise: no response).
OwnResponse(script, i) ==
    IF i <= Len(script.lines) /\ script.arrive[i] <= i THEN StripEol(script.lines[i])
    ELSE <<>>

\* C21: check_articles_exist returns one (message_id, exists) pair per
\* request, in request order, and exists is true exactly when the server's
\* response to that request's own STAT begins with 223 (no response within
\* the read's timeout gives false), also when responses arrive late; no
\* GROUP is sent, and every STAT is written before the first read.
C21_OwnStat ==
    (harness.phase = "checked" /\ harness.leased /\ harness.r.ret = "Ok") =>
        /\ Len(harness.r.pairs) = Len(sample_requests)
        /\ \A i \in 1..Len(sample_requests) :
            /\ harness.r.pairs[i][1] = sample_requests[i].message_id
            /\ harness.r.pairs[i][2] <=> StartsWith(OwnResponse(harness.script, i), S223)
        /\ harness.r.sent = [i \in 1..Len(sample_requests) |->
                                <<"STAT", sample_requests[i].message_id>>]
        /\ harness.r.reads_after = Len(sample_requests)

\* C22: check_availability sends one STAT for the first segment of each of
\* the first min(20, number of files) files and returns counts with
\* available + missing = sample_size = number of files sampled; on an empty
\* manifest it returns (0, 0, 0) without leasing; a connection it leased is
\* back in the pool when it returns, with Ok or with Err.
C22_Availability ==
    harness.phase = "checked" =>
        LET sampled == Min(20, Len(manifest))
        IN  /\ manifest = <<>> =>
                (harness.result = [ok |-> TRUE, available |-> 0, missing |-> 0, total |-> 0]
                 /\ ~harness.leased)
            /\ harness.leased => idle = <<harness.r.conn>>
            /\ ~harness.leased => (idle = <<>> /\ harness.r.sent = <<>>)
            /\ (harness.leased /\ harness.result.ok) =>
                /\ harness.r.sent = [i \in 1..sampled |-> <<"STAT", manifest[i].segs[1].message_id>>]
                /\ harness.result.total = sampled
                /\ harness.result.available + harness.result.missing = sampled
                /\ harness.result.available =
                       Cardinality({i \in 1..sampled : harness.r.pairs[i][2]})

\* The check of twenty-one files returned: twenty sampled, one missing.
C22_Witness ==
    /\ harness.phase = "checked"
    /\ Len(manifest) = 21
    /\ harness.leased /\ harness.result.ok
    /\ harness.result.total = 20 /\ harness.result.available = 19
    /\ idle = <<harness.r.conn>>

\* C23 as stated: no NZB's download is started without its availability
\* having been checked first.
C23_CheckedFirst == harness.phase = "download" => harness.checked

\* C23: when JSON output is off and the check returns counts of a non-empty
\* sample, the download is not started if none was found available (no
\* output file is created) and is started after a warning if some but not all
\* were; when JSON output is on, or the check fails, the download is started
\* unchecked.
C23_Preflight ==
    harness.phase \in {"download", "skipped"} =>
        LET counted == harness.checked /\ harness.result.ok /\ harness.result.total > 0
        IN  /\ harness.checked <=> ~harness.json
            /\ harness.phase = "skipped" <=> (counted /\ harness.result.available = 0)
            /\ harness.warned <=> (counted /\ harness.result.available > 0
                                           /\ harness.result.available < harness.result.total)
            /\ harness.warned => harness.phase = "download"
            /\ harness.phase = "skipped" =>
                (\A p \in DOMAIN disk : disk[p] = Absent) /\ next_file = 1 /\ ~returned.done

\* An NZB was skipped after a check that found none of two articles.
C23_Witness ==
    /\ harness.phase = "skipped"
    /\ harness.result.total = 2 /\ harness.result.available = 0
    /\ \A p \in DOMAIN disk : disk[p] = Absent

\* C24: each manifest file has its own output file: creating and
\* pre-allocating file f's output leaves alone what is at the output path of
\* every other file whose download has started.
C24_OwnPath ==
    [][\A f \in FileIds : \A g \in FileIds \ {f} :
          (Polled(f) /\ fpc[g] # "pending") =>
              disk'[OutputPath(g)] = disk[OutputPath(g)]]_vars

\* C25: for a batch of one request, download_segments_pipelined and
\* download_segment started on the same connection against the same server
\* send the same commands, leave the same unread bytes and the same
\* protocol state, and agree on the segment: the same decoded bytes, or
\* failed in both.
C25_SingleRequest ==
    harness.phase = "compared" =>
        LET p == harness.p
            s == harness.s
            got == p.ret = "Ok" /\ p.results[1][2].some
        IN  /\ p.group_sent = s.group_sent /\ p.body_sent = s.body_sent
            /\ p.conn = s.conn
            /\ got <=> s.ret = "Ok"
            /\ got => p.results[1][2].bytes = s.bytes

\* C26: on a line with neither '=' nor CR, of any length and appended to a
\* buffer of any prior content, decode_yenc_fast and decode_yenc_scalar
\* append the same bytes: (b - 42) mod 256 for each byte b of the line, in
\* order.
C26_FastIsScalar ==
    (/\ harness.phase = "decoded"
     /\ \A i \in 1..Len(harness.line) : harness.line[i] # 61 /\ harness.line[i] # 13) =>
        /\ harness.fast = harness.scalar
        /\ harness.fast = harness.out \o [i \in 1..Len(harness.line) |->
                                            (harness.line[i] + 256 - 42) % 256]

\* A line of two 16-byte chunks and one byte more, free of '=' and CR, was
\* decoded onto a buffer that was not empty.
C26_Witness ==
    /\ harness.phase = "decoded"
    /\ Len(harness.line) = 33 /\ harness.line[33] = 0
    /\ \A i \in 1..Len(harness.line) : harness.line[i] # 61 /\ harness.line[i] # 13
    /\ Len(harness.out) = 3
    /\ Len(harness.fast) = 36 /\ harness.fast[36] = 214

\* C27 as stated: data with none of the bytes 0x3D, 0x0D, 0x0A, encoded by
\* adding 42 to each byte and laid out in lines between =ybegin and =yend,
\* decodes to itself.
C27_RoundTrip ==
    (/\ harness.phase = "roundtrip"
     /\ \A i \in 1..Len(harness.data) : harness.data[i] \notin {61, 13, 10}) =>
        harness.decoded = harness.data

\* C27: data none of whose bytes encodes to '=', CR or LF (none of 0x13,
\* 0xE3, 0xE0), encoded by adding 42 to each byte and laid out in lines
\* between =ybegin and =yend, decodes to itself.
C27_RoundTripEncoded ==
    (/\ harness.phase = "roundtrip"
     /\ \A i \in 1..Len(harness.data) : harness.data[i] \notin {19, 227, 224}) =>
        harness.decoded = harness.data

\* The bytes '=', CR, LF were posted in three CRLF lines and came back.
C27_Witness ==
    /\ harness.phase = "roundtrip"
    /\ harness.data = <<61, 13, 10>> /\ harness.width = 1 /\ harness.eol = CRLF
    /\ harness.decoded = <<61, 13, 10>>

\* An '=' with no byte after it: every '=' before it takes the byte that
\* follows as its escaped byte.
RECURSIVE DanglingFrom(_, _)
DanglingFrom(line, i) ==
    IF i > Len(line) THEN FALSE
    ELSE IF line[i] = 61 THEN (i = Len(line) \/ DanglingFrom(line, i + 2))
    ELSE DanglingFrom(line, i + 1)

\* C28: when a data line of an article body ends in an '=' with no byte
\* after it, the segment is reported None and counted failed, never counted
\* ok.
C28_DanglingEscape ==
    (/\ harness.phase = "fetched"
     /\ harness.body.begin /\ DanglingFrom(harness.body.line, 1)) =>
        /\ harness.r.ret = "Ok" =>
               \A i \in 1..Len(harness.r.results) : ~harness.r.results[i][2].some
        /\ stats[1].segments_downloaded = 0

\* C29: when a 222 article body holds data but no =ybegin line before it,
\* the segment is reported None and counted failed with its message id
\* recorded, never counted ok with empty data.
C29_NoBegin ==
    (/\ harness.phase = "fetched"
     /\ ~harness.body.begin /\ harness.body.line # <<>>
     /\ harness.r.ret = "Ok" /\ Len(harness.r.results) = 1) =>
        /\ ~harness.r.results[1][2].some
        /\ stats[1].segments_downloaded = 0
        /\ stats[1].segments_failed = 1
        /\ stats[1].failed_message_ids["b1"] = 1

\* C30: a run with force_redownload = false that sends no BODY for a file
\* reports it with segments_failed = 0 and segments_ok = number of segments
\* only if every segment of the file is on disk.
C30_RerunComplete ==
    \A i \in 1..Len(results) :
        LET f == results[i].file
        IN  (/\ results[i].ok
             /\ results[i].value.segments_failed = 0
             /\ results[i].value.segments_downloaded = NumSegs(f)
             /\ \A k \in 1..NumSegs(f) : body_cmds[manifest[f].segs[k].message_id] = 0) =>
                disk[OutputPath(f)] = Complete(manifest[f])

\* C31: a segment is reported Some, written and counted in
\* segments_downloaded only if its body arrived up to and including the
\* terminating '.' line: when the server stops before that line the segment
\* is not reported Some, not counted ok, and nothing is written for it.
C31_WholeBody ==
    (harness.phase = "fetched" /\ ~harness.body.dot) =>
        /\ harness.r.ret = "Ok" =>
               \A i \in 1..Len(harness.r.results) : ~harness.r.results[i][2].some
        /\ stats[1].segments_downloaded = 0
        /\ disk[OutputPath(1)] = Preallocated(FileB)

\* C32: in download_segments_pipelined every BODY command of the batch is
\* written and the writer flushed before the first BODY response is read,
\* and a call whose write or flush fails returns an error without having
\* read any BODY response.
C32_WriteThenRead ==
    harness.phase = "call" =>
        /\ harness.reads > 0 =>
               harness.written = Len(harness.requests) /\ harness.flushed
        /\ harness.failed \in {"write", "flush"} =>
               harness.pc = "done" /\ harness.ret = "Err" /\ harness.reads = 0

\* The call went through both reads after both commands were written, and
\* returned Ok.
C32_Witness ==
    /\ harness.phase = "call" /\ harness.pc = "done" /\ harness.ret = "Ok"
    /\ harness.written = 2 /\ harness.flushed /\ harness.reads = 2
    /\ Len(harness.results) = 2

\* C33: on one connection, over any sequence of download_segment and
\* download_segments_pipelined calls, GROUP is sent only when the requested
\* group differs from the selected one; the selected group changes only
\* when the server answers that GROUP with 211, so it always equals the
\* last group the server acknowledged; and a GROUP answered with anything
\* other than 211 makes the call fail without sending a BODY.
C33_GroupState ==
    (harness.phase = "conn" /\ harness.calls > 0) =>
        LET c == harness.last
        IN  /\ c.group_sent <=> c.before.group # c.group
            /\ harness.conn.group # c.before.group =>
                   c.answered /\ c.script.grp = <<S211 \o CRLF>>
            /\ harness.conn.group = harness.acked
            /\ (c.answered /\ c.script.grp = <<S411 \o CRLF>>) =>
                   c.ret = "Err" /\ ~c.body_sent

\* The segment indices of the batches b..NumBatches(f) of file f, in order.
RECURSIVE BatchesFrom(_, _)
BatchesFrom(f, b) ==
    IF b > NumBatches(f) THEN <<>> ELSE BatchSegs(f, b) \o BatchesFrom(f, b + 1)

FileCap == IF config.connections \div 5 >= 2 THEN config.connections \div 5 ELSE 2

C36_Backoff ==
    [][\A fb \in AllBatches :
          LET t == bt[fb[1]][fb[2]]
              u == bt'[fb[1]][fb[2]]
          IN  (t.pc = "lease" /\ u.pc = "wait" /\ t.attempt > 0) =>
                  /\ u.elapsed < max_wait
                  /\ u.elapsed - t.elapsed = Min(Pow2(t.attempt - 1), 16)]_vars

Seeked(b) == harness.tasks[b].pc = "seeked"

\* C37: for any interleaving of a file's batch tasks, a task that has
\* sought to a segment's offset holds the file mutex until its write is
\* done: the handle stays at that offset, no step of another task moves the
\* handle or changes the file in between, and every write begins at the
\* offset of its own segment.
C37_SeekWriteAtomic ==
    /\ [](\A b \in DOMAIN harness.tasks :
            Seeked(b) => harness.holder = b /\ harness.pos = TaskOffset(b))
    /\ [](\A w \in harness.wrote :
            w.at = segment_offset(1, BatchSegs(1, w.batch)[OffsetIndex(1, w.batch, w.seg_num)]))
    /\ [][\A b \in DOMAIN harness.tasks :
            (Seeked(b) /\ (harness.pos' # harness.pos \/ harness.data' # harness.data))
                => harness.tasks'[b] # harness.tasks[b]]_vars

\* One task waits for the mutex while another is between its seek and its
\* write, and a write has already been made at a segment's offset.
C37_Witness ==
    /\ \E b \in DOMAIN harness.tasks, c \in DOMAIN harness.tasks :
        /\ b # c
        /\ Seeked(b)
        /\ harness.tasks[c].pc = "result"
        /\ AtPair(c) /\ TaskPair(c)[2].some /\ TaskOffsetIndex(c) # 0
    /\ \E w \in harness.wrote : w.at > 0

\* The file's download ran its batches (it was not resumed) and has ended.
FetchedDone(f) ==
    /\ fpc[f] = "done"
    /\ \A b \in 1..NumBatches(f) : bt[f][b].pc = "done"

IdFailed(f, k) == stats[f].failed_message_ids[manifest[f].segs[k].message_id] > 0

\* No seek or write failed: every failed segment has its id recorded.
NoIoError(f) ==
    stats[f].segments_failed = Cardinality({k \in 1..NumSegs(f) : IdFailed(f, k)})

RangeIsZero(data, offset, n) ==
    \A i \in (offset + 1)..(offset + n) : i \in DOMAIN data => data[i] = 0

RangeHolds(data, offset, bytes) ==
    \A i \in 1..Len(bytes) : offset + i \in DOMAIN data /\ data[offset + i] = bytes[i]

SegmentRanges(f) ==
    \A k \in 1..NumSegs(f) :
        IF IdFailed(f, k)
        THEN RangeIsZero(disk[OutputPath(f)].data, segment_offset(f, k),
                         manifest[f].segs[k].bytes)
        ELSE NoIoError(f) =>
                RangeHolds(disk[OutputPath(f)].data, segment_offset(f, k),
                           ArticleData(manifest[f].segs[k].message_id))

\* C38: after a file has been fetched (not resumed), every byte of the
\* declared range of each failed segment is zero, also when an older file
\* was at the path before the run, and the bytes at the offset of each ok
\* segment are its decoded data.
C38_FailedRangesZero ==
    \A f \in FileIds : FetchedDone(f) => SegmentRanges(f)

\* The first line of src whose text is '.' alone (0: there is none).
TermAt(src) ==
    LET dots == {i \in 1..Len(src) : src[i].text = DotLine}
    IN  IF dots = {} THEN 0 ELSE CHOOSE i \in dots : \A j \in dots : i <= j

\* A line as the claim has it delivered: one leading dot of '..' removed,
\* the ending replaced by LF.
Delivered(l) ==
    (IF StartsWith(l.text, <<46, 46>>) THEN Tail(l.text) ELSE l.text) \o EOL

\* C39: read_article_body stops exactly at the first line that is '.' alone
\* (ended by CRLF or by a bare LF), consuming that line and nothing after
\* it; a line that begins with '..' is delivered with one leading dot
\* removed and is never the terminator, also when the line is exactly
\* '..'; every other line is delivered unchanged with its ending
\* normalised to LF.
C39_BodyTerminator ==
    (harness.phase = "read" /\ TermAt(harness.src) # 0) =>
        LET t == TermAt(harness.src)
        IN  /\ harness.r.kind = "ok"
            /\ harness.r.body = Flatten([i \in 1..(t - 1) |-> Delivered(harness.src[i])])
            /\ harness.r.rd.wire = SubSeq(harness.rd.wire, t + 1, Len(harness.rd.wire))

\* A body of the line '..' and a dotted line, then the terminator with a
\* bare LF, then one more line that stays unread.
C39_Witness ==
    /\ harness.phase = "read"
    /\ Len(harness.src) = 3
    /\ harness.src[1].text = <<46, 46>>
    /\ harness.src[2] = [text |-> DotLine, eol |-> EOL]
    /\ harness.r.body = <<46, 10>>
    /\ Len(harness.r.rd.wire) = 1

\* The number of '=' bytes that stand directly before position i.
EqRun(line, i) ==
    LET stops == {j \in 1..(i - 1) : line[j] # 61}
    IN  IF stops = {} THEN i - 1 ELSE i - 1 - (CHOOSE j \in stops : \A k \in stops : k <= j)

\* Position i is the byte that an escape consumes with its '='.
Escaped(line, i) == EqRun(line, i) % 2 = 1

\* The rule of the claim, left to right: an '=' that is not itself escaped
\* is an escape and emits nothing of its own, the byte B it escapes emits
\* (B - 64 - 42) mod 256, CR emits nothing, any other byte B emits
\* (B - 42) mod 256.
Reference(line) ==
    LET emits(i) == Escaped(line, i) \/ (line[i] # 61 /\ line[i] # 13)
        kept == SelectSeq([i \in 1..Len(line) |-> i], emits)
    IN  [n \in 1..Len(kept) |->
            IF Escaped(line, kept[n]) THEN (line[kept[n]] + 512 - 64 - 42) % 256
            ELSE (line[kept[n]] + 256 - 42) % 256]

HasSpecial(line) == \E i \in 1..Len(line) : line[i] = 61 \/ line[i] = 13

\* C40: for every data line decode_yenc_line_simd appends what the
\* reference rule gives, which is what the scalar path appends, and on the
\* lines that take the fast path the fast path appends the same.
C40_SimdIsReference ==
    harness.phase = "decoded" =>
        /\ harness.simd = harness.out \o Reference(harness.line)
        /\ harness.simd = harness.scalar
        /\ ~HasSpecial(harness.line) => harness.simd = harness.fast

\* The line '=', CR, '*' was decoded onto a buffer of one byte: the escape
\* consumed the CR.
C40_Witness ==
    /\ harness.phase = "decoded"
    /\ harness.line = <<61, 13, 42>>
    /\ harness.out = <<7>>
    /\ harness.simd = <<7, 163, 0>>

====
